---- MODULE Spec2Model ----
(***************************************************************************)
(* A model of the chippie CHIP-8 interpreter: the instruction decoder      *)
(* (src/interpreter/instructions.rs) and the machine engine                *)
(* (src/interpreter/mod.rs): reset, try_load_rom, set_input_keys, tick.    *)
(***************************************************************************)
EXTENDS Integers, Sequences, FiniteSets, TLC

\* ------------------------------------------------------------- constants

BASE_ADDRESS == 512
MEMORY_SIZE == 4096
STACK_SIZE == 32
REGISTER_COUNT == 16
SCREEN_WIDTH == 64
SCREEN_HEIGHT == 32

MAX_ROM_SIZE == MEMORY_SIZE - BASE_ADDRESS

TICKS_PER_SECOND == 500
TIMER_FREQUENCY == 60
TIMER_TICK_INTERVAL == TICKS_PER_SECOND \div TIMER_FREQUENCY

\* The font table seeded at the start of memory: 16 glyphs of 5 bytes.
FONT_ROM ==
    << 240, 144, 144, 144, 240,    32,  96,  32,  32, 112,
       240,  16, 240, 128, 240,   240,  16, 240,  16, 240,
       144, 144, 240,  16,  16,   240, 128, 240,  16, 240,
       240, 128, 240, 144, 240,   240,  16,  32,  64,  64,
       240, 144, 240, 144, 240,   240, 144, 240,  16, 240,
       240, 144, 240, 144, 144,   224, 144, 224, 144, 224,
       240, 128, 128, 128, 240,   224, 144, 144, 144, 224,
       240, 128, 240, 128, 240,   240, 128, 240, 128, 128 >>

\* ---------------------------------------------------------- bit helpers

\* 2^k for k in 0..30
Pow2(k) ==
    << 1, 2, 4, 8, 16, 32, 64, 128, 256, 512, 1024, 2048, 4096, 8192, 16384,
       32768, 65536, 131072, 262144, 524288, 1048576, 2097152, 4194304,
       8388608, 16777216, 33554432, 67108864, 134217728, 268435456,
       536870912, 1073741824 >>[k + 1]

\* (v >> k) & 1
Bit(v, k) == (v \div Pow2(k)) % 2

\* a & b, a | b, a ^ b on 8-bit values
BitAnd8(a, b) ==
      Bit(a, 0) * Bit(b, 0)       + Bit(a, 1) * Bit(b, 1) * 2
    + Bit(a, 2) * Bit(b, 2) * 4   + Bit(a, 3) * Bit(b, 3) * 8
    + Bit(a, 4) * Bit(b, 4) * 16  + Bit(a, 5) * Bit(b, 5) * 32
    + Bit(a, 6) * Bit(b, 6) * 64  + Bit(a, 7) * Bit(b, 7) * 128

BitXor8(a, b) == a + b - 2 * BitAnd8(a, b)

BitOr8(a, b) == a + b - BitAnd8(a, b)

\* ------------------------------------------------------------- results

Ok == [kind |-> "Ok", val |-> 0]

Err(kind, val) == [kind |-> kind, val |-> val]

\* An index out of range or an arithmetic overflow aborts the call (a Rust
\* panic); it is no Chip8InterpreterError.
Panic == [kind |-> "Panic", val |-> 0]

\* ------------------------------------------------------------- decoder

OpX(opcode) == (opcode \div 256) % 16

OpY(opcode) == (opcode \div 16) % 16

Decoded(instr) == [ok |-> TRUE, instr |-> instr]

\* A bug reporting only the low 12 bits of the opcode.
DecodeError_masked(opcode) ==
    [ok |-> FALSE, err |-> Err("InvalidInstruction", opcode % 4096)]

DecodeError(opcode) == [ok |-> FALSE, err |-> Err("InvalidInstruction", opcode)]

\* A bug rejecting the class-0 opcodes that are neither 00E0 nor 00EE.
try_from_system_strict(opcode) ==
    IF opcode = 224 THEN Decoded([op |-> "ClearScreen"])
    ELSE IF opcode = 238 THEN Decoded([op |-> "Return"])
    ELSE DecodeError(opcode)

\* class 0x0: 00E0, 00EE, and no-op for every other value
try_from_system(opcode) ==
    IF opcode = 224 THEN Decoded([op |-> "ClearScreen"])
    ELSE IF opcode = 238 THEN Decoded([op |-> "Return"])
    ELSE Decoded([op |-> "NoOperation"])

\* class 0x8: ALU group selected by the low nibble
try_from_alu(opcode) ==
    LET n == opcode % 16
        xy(op) == Decoded([op |-> op, x |-> OpX(opcode), y |-> OpY(opcode)])
    IN CASE n = 0 -> xy("Copy")
         [] n = 1 -> xy("Or")
         [] n = 2 -> xy("And")
         [] n = 3 -> xy("Xor")
         [] n = 4 -> xy("AddRegister")
         [] n = 5 -> xy("SubtractVxVy")
         [] n = 6 -> xy("ShiftRight")
         [] n = 7 -> xy("SubtractVyVx")
         [] n = 14 -> xy("ShiftLeft")
         [] OTHER -> DecodeError(opcode)

\* class 0xE: key-conditioned skips
try_from_key(opcode) ==
    IF opcode % 256 = 158
    THEN Decoded([op |-> "SkipIfKeyPressed", register |-> OpX(opcode)])
    ELSE IF opcode % 256 = 161
    THEN Decoded([op |-> "SkipIfKeyNotPressed", register |-> OpX(opcode)])
    ELSE DecodeError(opcode)

\* class 0xF: timer / misc group selected by the low byte
try_from_misc(opcode) ==
    LET register == OpX(opcode)
        b == opcode % 256
        r(op) == Decoded([op |-> op, register |-> register])
    IN CASE b = 7 -> r("ReadDelayTimer")
         [] b = 10 -> r("WaitForKey")
         [] b = 21 -> r("SetDelayTimer")
         [] b = 24 -> r("SetSoundTimer")
         [] b = 30 -> r("AddIndex")
         [] b = 41 -> r("SelectCharacter")
         [] b = 51 -> r("StoreBcd")
         [] b = 85 -> Decoded([op |-> "StoreRegisters", count |-> register + 1])
         [] b = 101 -> Decoded([op |-> "LoadRegisters", count |-> register + 1])
         [] OTHER -> DecodeError(opcode)

\* Chip8Instruction::try_from(opcode: u16)
try_from(opcode) ==
    LET c == opcode \div 4096
        addr(op) == Decoded([op |-> op, address |-> opcode % 4096])
        rv(op) == Decoded([op |-> op, register |-> OpX(opcode), value |-> opcode % 256])
        xy(op) == Decoded([op |-> op, x |-> OpX(opcode), y |-> OpY(opcode)])
    IN CASE c = 0 -> try_from_system(opcode)
         [] c = 1 -> addr("Jump")
         [] c = 2 -> addr("Call")
         [] c = 3 -> rv("SkipIfEqualValue")
         [] c = 4 -> rv("SkipIfNotEqualValue")
         [] c = 5 -> xy("SkipIfEqualRegister")
         [] c = 6 -> rv("LoadValue")
         [] c = 7 -> rv("AddValue")
         [] c = 8 -> try_from_alu(opcode)
         [] c = 9 -> xy("SkipIfNotEqualRegister")
         [] c = 10 -> addr("SetIndex")
         [] c = 11 -> addr("JumpRelative")
         [] c = 12 -> Decoded([op |-> "Random", register |-> OpX(opcode),
                               mask |-> opcode % 256])
         [] c = 13 -> Decoded([op |-> "Draw", x |-> OpX(opcode), y |-> OpY(opcode),
                               len |-> opcode % 16])
         [] c = 14 -> try_from_key(opcode)
         [] c = 15 -> try_from_misc(opcode)

\* -------------------------------------------------------------- state

\* The two big arrays of Chip8InterpreterState are kept by their nonzero
\* entries.  memory: [u8; MEMORY_SIZE] is the function from the addresses
\* holding a nonzero byte to that byte (every other address of
\* 0..MEMORY_SIZE-1 holds 0); screen: [[u8; 64]; 32] is the set of the
\* <<column, line>> whose byte is 1 (the code only ever stores 0 or 1).

Addresses == 0..(MEMORY_SIZE - 1)

\* memory[a], for a in Addresses
Mem(s, a) == IF a \in DOMAIN s.memory THEN s.memory[a] ELSE 0

\* The array mem after memory[a] = upd[a] for every a in DOMAIN upd.
MemStore(mem, upd) ==
    LET val(a) == IF a \in DOMAIN upd THEN upd[a] ELSE mem[a]
    IN [a \in {b \in (DOMAIN mem) \cup (DOMAIN upd) : val(b) # 0} |-> val(a)]

\* screen[yy][xx]
Pixel(s, xx, yy) == IF <<xx, yy>> \in s.screen THEN 1 ELSE 0

\* Chip8InterpreterState::default()
DefaultState ==
    [ registers  |-> [r \in 0..(REGISTER_COUNT - 1) |-> 0],
      stack      |-> [k \in 0..(STACK_SIZE - 1) |-> 0],
      memory     |-> MemStore(<<>>, [a \in 0..(Len(FONT_ROM) - 1) |-> FONT_ROM[a + 1]]),
      screen     |-> {},
      input_keys |-> 0,
      i          |-> 0,
      st         |-> 0,
      dt         |-> 0,
      pc         |-> BASE_ADDRESS,
      sp         |-> 0 ]

\* ----------------------------------------------------------- dispatch

\* What dispatch hands back: its Result, the state as mutated so far, and the
\* stack index it wrote (-1: none).
Done(s) == [result |-> Ok, state |-> s, stack_write |-> -1]

Fail(s, kind, val) == [result |-> Err(kind, val), state |-> s, stack_write |-> -1]

Abort(s) == [result |-> Panic, state |-> s, stack_write |-> -1]

SetReg(s, r, v) == [s EXCEPT !.registers[r] = v]

\* A bug writing the flag before the result, which then wins in register 15.
SetRegFlag_flagfirst(s, x, v, flag) ==
    [s EXCEPT !.registers = [[@ EXCEPT ![15] = flag] EXCEPT ![x] = v]]

\* registers[x] = v; registers[15] = flag (in that order)
SetRegFlag(s, x, v, flag) ==
    [s EXCEPT !.registers = [[@ EXCEPT ![x] = v] EXCEPT ![15] = flag]]

\* A bug skipping two instructions.
Skip_two(s, cond) == IF cond THEN [s EXCEPT !.pc = @ + 4] ELSE s

\* A bug skipping when the condition does not hold.
Skip_inverted(s, cond) == IF cond THEN s ELSE [s EXCEPT !.pc = @ + 2]

\* if cond { self.state.pc += 2 }
Skip(s, cond) == IF cond THEN [s EXCEPT !.pc = @ + 2] ELSE s

\* A bug letting a call through at depth STACK_SIZE.
CallGuard_offbyone(s) == s.sp > STACK_SIZE

\* The check of Call: the stack is full.
CallGuard(s) == s.sp > (STACK_SIZE - 1)

dispatch_Call(s, address) ==
    IF CallGuard(s) THEN Fail(s, "CallStackDepthExceeded", 0)
    ELSE IF s.sp \notin DOMAIN s.stack
    THEN [result |-> Panic, state |-> s, stack_write |-> s.sp]
    ELSE [ result |-> Ok,
           state |-> [s EXCEPT !.stack[s.sp] = s.pc, !.sp = s.sp + 1, !.pc = address],
           stack_write |-> s.sp ]

\* A bug leaving out the check of Return.
ReturnGuard_never(s) == FALSE

\* The check of Return: the stack is empty.
ReturnGuard(s) == s.sp = 0

\* A bug returning to the oldest call instead of the most recent one.
dispatch_Return_oldest(s) ==
    IF ReturnGuard(s) THEN Fail(s, "CallStackEmpty", 0)
    ELSE IF (s.sp - 1) \notin DOMAIN s.stack THEN Abort([s EXCEPT !.sp = s.sp - 1])
    ELSE Done([s EXCEPT !.sp = s.sp - 1, !.pc = s.stack[0]])

dispatch_Return(s) ==
    IF ReturnGuard(s) THEN Fail(s, "CallStackEmpty", 0)
    ELSE IF (s.sp - 1) \notin DOMAIN s.stack THEN Abort([s EXCEPT !.sp = s.sp - 1])
    ELSE Done([s EXCEPT !.sp = s.sp - 1, !.pc = s.stack[s.sp - 1]])

\* A bug checking each byte as it is stored: the bytes that fit are written
\* before the failure.
dispatch_StoreRegisters_partial(s, count) ==
    LET fits == {a \in s.i..(s.i + count - 1) : a < MEMORY_SIZE}
        stored == [s EXCEPT !.memory = MemStore(@, [a \in fits |-> s.registers[a - s.i]])]
    IN IF (s.i + count) > MEMORY_SIZE THEN Fail(stored, "MemoryAccessError", 0)
       ELSE Done(stored)

dispatch_StoreRegisters(s, count) ==
    IF (s.i + count) > MEMORY_SIZE THEN Fail(s, "MemoryAccessError", 0)
    ELSE Done([s EXCEPT !.memory =
                 MemStore(@, [a \in s.i..(s.i + count - 1) |-> s.registers[a - s.i]])])

\* A bug loading one register more than count (0..=count).
dispatch_LoadRegisters_inclusive(s, count) ==
    IF (s.i + count) > MEMORY_SIZE THEN Fail(s, "MemoryAccessError", 0)
    ELSE Done([s EXCEPT !.registers =
                 [r \in DOMAIN s.registers |->
                    IF r <= count THEN Mem(s, s.i + r) ELSE s.registers[r]]])

dispatch_LoadRegisters(s, count) ==
    IF (s.i + count) > MEMORY_SIZE THEN Fail(s, "MemoryAccessError", 0)
    ELSE Done([s EXCEPT !.registers =
                 [r \in DOMAIN s.registers |->
                    IF r < count THEN Mem(s, s.i + r) ELSE s.registers[r]]])

\* A bug refusing the jump to the last byte of memory.
dispatch_JumpRelative_strict(s, address) ==
    IF (s.registers[0] + address) > (MEMORY_SIZE - 2)
    THEN Fail(s, "MemoryAccessError", 0)
    ELSE Done([s EXCEPT !.pc = s.registers[0] + address])

dispatch_JumpRelative(s, address) ==
    IF (s.registers[0] + address) > (MEMORY_SIZE - 1)
    THEN Fail(s, "MemoryAccessError", 0)
    ELSE Done([s EXCEPT !.pc = s.registers[0] + address])

dispatch_StoreBcd(s, register) ==
    LET v == s.registers[register]
    IN IF s.i + 3 > 65535 THEN Abort(s)
       ELSE IF (s.i + 3) > MEMORY_SIZE THEN Fail(s, "MemoryAccessError", 0)
       ELSE Done([s EXCEPT !.memory =
                    MemStore(@, [a \in s.i..(s.i + 2) |->
                                   CASE a = s.i -> v \div 100
                                     [] a = s.i + 1 -> (v \div 10) % 10
                                     [] a = s.i + 2 -> v % 10])])

\* The sprite rows Draw can read before memory[i + row] leaves memory.
DrawRowsReadable(s, len) ==
    IF s.i + len <= MEMORY_SIZE THEN len
    ELSE IF s.i >= MEMORY_SIZE THEN 0
    ELSE MEMORY_SIZE - s.i

\* A bug drawing each sprite row mirrored (least significant bit leftmost).
DrawBit_lsbfirst(s, x, y, n, xx, yy) ==
    LET row == (yy - s.registers[y]) % SCREEN_HEIGHT
        col == (xx - s.registers[x]) % SCREEN_WIDTH
    IN IF row < n /\ col < 8 THEN Bit(Mem(s, s.i + row), col) ELSE 0

\* The bit Draw xors into pixel (xx, yy) when the first n sprite rows are drawn.
DrawBit(s, x, y, n, xx, yy) ==
    LET row == (yy - s.registers[y]) % SCREEN_HEIGHT
        col == (xx - s.registers[x]) % SCREEN_WIDTH
    IN IF row < n /\ col < 8 THEN Bit(Mem(s, s.i + row), 7 - col) ELSE 0

\* The pixels the first n sprite rows cover: 8 columns from Vx on each of the n
\* lines from Vy, both wrapping.
DrawArea(s, x, y, n) ==
    { <<(s.registers[x] + c) % SCREEN_WIDTH, (s.registers[y] + r) % SCREEN_HEIGHT>> :
        c \in 0..7, r \in 0..(n - 1) }

\* A bug setting pixels (|=) where the code toggles them (^=).
DrawScreen_or(s, x, y, n) ==
    s.screen
    \cup { p \in DrawArea(s, x, y, n) : DrawBit(s, x, y, n, p[1], p[2]) = 1 }

\* screen_line[pixel_pos_x] ^= (sprite_row >> i) & 1, over the first n rows
DrawScreen(s, x, y, n) ==
    (s.screen \ DrawArea(s, x, y, n))
    \cup { p \in DrawArea(s, x, y, n) :
             BitXor8(Pixel(s, p[1], p[2]), DrawBit(s, x, y, n, p[1], p[2])) = 1 }

dispatch_Draw(s, x, y, len) ==
    LET n == DrawRowsReadable(s, len)
        scr == DrawScreen(s, x, y, n)
        set_flag == \E p \in s.screen : p \notin scr
    IN IF n < len THEN Abort([s EXCEPT !.screen = scr])
       ELSE Done([s EXCEPT !.screen = scr,
                           !.registers[15] = IF set_flag THEN 1 ELSE 0])

\* A bug testing the bit above the key's.
KeyHeld_above(s, k) == Bit(s.input_keys, k + 1) > 0

\* input_keys & (1u32 << k) > 0
KeyHeld(s, k) == Bit(s.input_keys, k) > 0

dispatch_SkipIfKey(s, register, pressed) ==
    IF s.registers[register] > 15
    THEN Fail(s, "InvalidInputKey", s.registers[register])
    ELSE Done(Skip(s, KeyHeld(s, s.registers[register]) = pressed))

\* the lowest i in 0..15 with bit i of input_keys set, or -1
FirstKey(s) ==
    IF \E k \in 0..15 : KeyHeld(s, k)
    THEN CHOOSE k \in 0..15 : KeyHeld(s, k) /\ \A j \in 0..(k - 1) : ~KeyHeld(s, j)
    ELSE -1

dispatch_WaitForKey(s, register) ==
    IF s.input_keys = 0 THEN Fail(s, "ExpectingInputKey", 0)
    ELSE IF FirstKey(s) >= 0 THEN Done(SetReg(s, register, FirstKey(s)))
    ELSE Done(s)

\* A bug setting the flags of the additions the other way round.
dispatch_Add_swapped(s, x, operand, carry_flag, no_carry_flag) ==
    LET sum == s.registers[x] + operand
    IN Done(SetRegFlag(s, x, sum % 256,
                       IF sum > 255 THEN no_carry_flag ELSE carry_flag))

dispatch_Add(s, x, operand, carry_flag, no_carry_flag) ==
    LET sum == s.registers[x] + operand
    IN Done(SetRegFlag(s, x, sum % 256,
                       IF sum > 255 THEN carry_flag ELSE no_carry_flag))

\* A bug setting the flag to 1 on borrow.
dispatch_Sub_borrowflag(s, x, a, b) ==
    Done(SetRegFlag(s, x, (a - b) % 256, IF a < b THEN 1 ELSE 0))

\* registers[x] = a - b (wrapping); registers[15] = 0 on borrow, else 1
dispatch_Sub(s, x, a, b) ==
    Done(SetRegFlag(s, x, (a - b) % 256, IF a < b THEN 0 ELSE 1))

\* Chip8Interpreter::dispatch; rnd is the byte rand::random::<u8>() draws
dispatch(s, ins, rnd) ==
    LET op == ins.op
        V == s.registers
    IN CASE op = "NoOperation" -> Done(s)
         [] op = "Syscall" -> Done(s)
         [] op = "Random" -> Done(SetReg(s, ins.register, BitAnd8(rnd, ins.mask)))
         [] op = "Call" -> dispatch_Call(s, ins.address)
         [] op = "Return" -> dispatch_Return(s)
         [] op = "StoreRegisters" -> dispatch_StoreRegisters(s, ins.count)
         [] op = "LoadRegisters" -> dispatch_LoadRegisters(s, ins.count)
         [] op = "Jump" -> Done([s EXCEPT !.pc = ins.address])
         [] op = "JumpRelative" -> dispatch_JumpRelative(s, ins.address)
         [] op = "ClearScreen" -> Done([s EXCEPT !.screen = {}])
         [] op = "SelectCharacter" -> Done([s EXCEPT !.i = V[ins.register] * 5])
         [] op = "StoreBcd" -> dispatch_StoreBcd(s, ins.register)
         [] op = "Draw" -> dispatch_Draw(s, ins.x, ins.y, ins.len)
         [] op = "SkipIfEqualValue" -> Done(Skip(s, V[ins.register] = ins.value))
         [] op = "SkipIfEqualRegister" -> Done(Skip(s, V[ins.x] = V[ins.y]))
         [] op = "SkipIfNotEqualValue" -> Done(Skip(s, V[ins.register] # ins.value))
         [] op = "SkipIfNotEqualRegister" -> Done(Skip(s, V[ins.x] # V[ins.y]))
         [] op = "SkipIfKeyPressed" -> dispatch_SkipIfKey(s, ins.register, TRUE)
         [] op = "SkipIfKeyNotPressed" -> dispatch_SkipIfKey(s, ins.register, FALSE)
         [] op = "SetIndex" -> Done([s EXCEPT !.i = ins.address])
         [] op = "AddIndex" -> Done([s EXCEPT !.i = (s.i + V[ins.register]) % 65536])
         [] op = "LoadValue" -> Done(SetReg(s, ins.register, ins.value))
         [] op = "Copy" -> Done(SetReg(s, ins.x, V[ins.y]))
         [] op = "ReadDelayTimer" -> Done(SetReg(s, ins.register, s.dt))
         [] op = "SetDelayTimer" -> Done([s EXCEPT !.dt = V[ins.register]])
         [] op = "SetSoundTimer" -> Done([s EXCEPT !.st = V[ins.register]])
         [] op = "WaitForKey" -> dispatch_WaitForKey(s, ins.register)
         [] op = "AddValue" -> dispatch_Add(s, ins.register, ins.value, 0, 1)
         [] op = "AddRegister" -> dispatch_Add(s, ins.x, V[ins.y], 1, 0)
         [] op = "SubtractVxVy" -> dispatch_Sub(s, ins.x, V[ins.x], V[ins.y])
         [] op = "SubtractVyVx" -> dispatch_Sub(s, ins.x, V[ins.y], V[ins.x])
         [] op = "Or" -> Done(SetReg(s, ins.x, BitOr8(V[ins.x], V[ins.y])))
         [] op = "And" -> Done(SetReg(s, ins.x, BitAnd8(V[ins.x], V[ins.y])))
         [] op = "Xor" -> Done(SetReg(s, ins.x, BitXor8(V[ins.x], V[ins.y])))
         [] op = "ShiftRight" ->
              Done(SetRegFlag(s, ins.x, V[ins.x] \div 2, V[ins.x] % 2))
         [] op = "ShiftLeft" ->
              Done(SetRegFlag(s, ins.x, (V[ins.x] * 2) % 256, V[ins.x] \div 128))

\* ------------------------------------------------------------- engine

\* A bug firing the timers one cycle late.
TimerDue_late(counter) == counter > TIMER_TICK_INTERVAL

\* The check of update_timers, on the counter it has just incremented.
TimerDue(counter) == counter >= TIMER_TICK_INTERVAL

\* A bug decrementing a u8 timer without the check for 0 (wrapping).
Decrement_wrapping(v) == (v - 1) % 256

\* if timer > 0 { timer -= 1 }
Decrement(v) == IF v > 0 THEN v - 1 ELSE v

\* Chip8Interpreter::update_timers
update_timers(s, tc) ==
    IF TimerDue(tc + 1)
    THEN [ state |-> [s EXCEPT !.st = Decrement(s.st), !.dt = Decrement(s.dt)],
           timer_counter |-> 0 ]
    ELSE [ state |-> s, timer_counter |-> tc + 1 ]

\* A bug letting pc = MEMORY_SIZE - 1 through.
PcOutOfBounds_offbyone(s) == s.pc >= MEMORY_SIZE

\* The first check of tick: no opcode can be fetched at pc.
PcOutOfBounds(s) == (s.pc + 1) >= MEMORY_SIZE

NoInstruction == [op |-> "None"]

\* A bug advancing pc before the opcode is decoded.
TickOutcome_pcfirst(result, s, tc, ins, fetched, waited, stack_write) ==
    [ result |-> result,
      state |-> IF result.kind = "InvalidInstruction"
                THEN [s EXCEPT !.pc = s.pc + 2] ELSE s,
      timer_counter |-> tc, instr |-> ins,
      fetched |-> fetched, waited |-> waited, stack_write |-> stack_write ]

\* What one call of tick does: its Result, the state and cycle counter it
\* leaves, the decoded instruction (if it got that far), the addresses it
\* fetched from, whether it returned early waiting for a key, and the stack
\* index it wrote.
TickOutcome(result, s, tc, ins, fetched, waited, stack_write) ==
    [ result |-> result, state |-> s, timer_counter |-> tc, instr |-> ins,
      fetched |-> fetched, waited |-> waited, stack_write |-> stack_write ]

\* A bug waiting on WaitForKey whatever the keys.
WaitsForKey_anykeys(s, ins) == ins.op = "WaitForKey"

\* A bug leaving the wait to dispatch.
WaitsForKey_never(s, ins) == FALSE

\* The next instruction is WaitForKey and there is no input.
WaitsForKey(s, ins) == ins.op = "WaitForKey" /\ s.input_keys = 0

\* A bug counting the waiting cycle on the timers.
Wait_counted(s, tc, ins, fetched) ==
    LET u == update_timers(s, tc)
    IN TickOutcome(Ok, u.state, u.timer_counter, ins, fetched, TRUE, -1)

\* The early return of tick.
Wait(s, tc, ins, fetched) == TickOutcome(Ok, s, tc, ins, fetched, TRUE, -1)

\* A bug leaving pc on the instruction being executed.
Advance_none(s) == s

\* A bug advancing pc by one byte.
Advance_byone(s) == [s EXCEPT !.pc = s.pc + 1]

\* self.state.pc += 2
Advance(s) == [s EXCEPT !.pc = s.pc + 2]

\* A bug updating the timers before the instruction is executed.
tick_timersfirst(s, tc, rnd) ==
    IF PcOutOfBounds(s)
    THEN TickOutcome(Err("ProgramCounterOutOfBounds", s.pc), s, tc,
                     NoInstruction, {}, FALSE, -1)
    ELSE IF {s.pc, s.pc + 1} \subseteq Addresses
    THEN LET opcode == Mem(s, s.pc) * 256 + Mem(s, s.pc + 1)
             fetched == {s.pc, s.pc + 1}
             dec == try_from(opcode)
         IN IF ~dec.ok
            THEN TickOutcome(dec.err, s, tc, NoInstruction, fetched, FALSE, -1)
            ELSE IF WaitsForKey(s, dec.instr)
            THEN Wait(s, tc, dec.instr, fetched)
            ELSE LET u == update_timers(Advance(s), tc)
                     d == dispatch(u.state, dec.instr, rnd)
                 IN IF d.result = Ok
                    THEN TickOutcome(Ok, d.state, u.timer_counter, dec.instr,
                                     fetched, FALSE, d.stack_write)
                    ELSE TickOutcome(d.result, dispatch(Advance(s), dec.instr, rnd).state,
                                     tc, dec.instr, fetched, FALSE, d.stack_write)
    ELSE TickOutcome(Panic, s, tc, NoInstruction, {s.pc, s.pc + 1}, FALSE, -1)

\* Chip8Interpreter::tick
tick(s, tc, rnd) ==
    IF PcOutOfBounds(s)
    THEN TickOutcome(Err("ProgramCounterOutOfBounds", s.pc), s, tc,
                     NoInstruction, {}, FALSE, -1)
    ELSE IF {s.pc, s.pc + 1} \subseteq Addresses
    THEN LET opcode == Mem(s, s.pc) * 256 + Mem(s, s.pc + 1)
             fetched == {s.pc, s.pc + 1}
             dec == try_from(opcode)
         IN IF ~dec.ok
            THEN TickOutcome(dec.err, s, tc, NoInstruction, fetched, FALSE, -1)
            ELSE IF WaitsForKey(s, dec.instr)
            THEN Wait(s, tc, dec.instr, fetched)
            ELSE LET d == dispatch(Advance(s), dec.instr, rnd)
                     u == update_timers(d.state, tc)
                 IN IF d.result = Ok
                    THEN TickOutcome(Ok, u.state, u.timer_counter, dec.instr,
                                     fetched, FALSE, d.stack_write)
                    ELSE TickOutcome(d.result, d.state, tc, dec.instr,
                                     fetched, FALSE, d.stack_write)
    ELSE TickOutcome(Panic, s, tc, NoInstruction, {s.pc, s.pc + 1}, FALSE, -1)

\* A bug loading into cleared memory: the font table and the ROM, nothing else.
try_load_rom_clearing(s, rom) ==
    IF Len(rom) > MAX_ROM_SIZE THEN [result |-> Err("RomFileTooLarge", 0), state |-> s]
    ELSE [ result |-> Ok,
           state |-> [s EXCEPT !.memory =
                        MemStore(DefaultState.memory,
                                 [a \in BASE_ADDRESS..(BASE_ADDRESS + Len(rom) - 1) |->
                                    rom[a - BASE_ADDRESS + 1]])] ]

\* A bug reading the opcode low byte first.
try_read_instruction_lowfirst(s, address) ==
    IF address >= MEMORY_SIZE - 2
    THEN [ok |-> FALSE, err |-> Err("MemoryAccessError", 0)]
    ELSE try_from(Mem(s, address + 1) * 256 + Mem(s, address))

\* A bug refusing a ROM that fills memory exactly.
RomTooLarge_ge(rom) == Len(rom) >= MAX_ROM_SIZE

\* The check of try_load_rom: the ROM does not fit above BASE_ADDRESS.
RomTooLarge(rom) == Len(rom) > MAX_ROM_SIZE

\* Chip8Interpreter::try_load_rom
try_load_rom(s, rom) ==
    IF RomTooLarge(rom) THEN [result |-> Err("RomFileTooLarge", 0), state |-> s]
    ELSE IF BASE_ADDRESS + Len(rom) > MEMORY_SIZE
    THEN [result |-> Panic, state |-> s]
    ELSE [ result |-> Ok,
           state |-> [s EXCEPT !.memory =
                        MemStore(@, [a \in BASE_ADDRESS..(BASE_ADDRESS + Len(rom) - 1) |->
                                       rom[a - BASE_ADDRESS + 1]])] ]

\* Chip8Interpreter::try_read_instruction
try_read_instruction(s, address) ==
    IF address >= MEMORY_SIZE - 2
    THEN [ok |-> FALSE, err |-> Err("MemoryAccessError", 0)]
    ELSE try_from(Mem(s, address) * 256 + Mem(s, address + 1))

\* Chip8Interpreter::is_sound_playing
is_sound_playing(s) == s.st > 1

\* -------------------------------------------------------------- inputs

\* The most try_load_rom calls made after one reset.
MaxLoads == 1

\* The most ticks that change the machine after one reset.
MaxTicks == 40

\* try_load_rom is called after at most this many such ticks.
MaxLoadDelay == 2

\* The bytes of a program given as 16-bit opcodes, high byte first.
RomOf(words) ==
    [k \in 1..(2 * Len(words)) |->
       IF k % 2 = 1 THEN words[(k + 1) \div 2] \div 256 ELSE words[k \div 2] % 256]

\* Waits for a key into V1, starts the delay timer at 2 and the sound timer at
\* V1, waits again while they run, polls the delay timer until it is 0, and
\* then loops in place.
RomKeys ==
    RomOf(<< \hF10A, \h6002, \hF015, \hF118, \hF20A, \hF007, \h3000, \h120A,
             \h1210 >>)

\* An unbounded recursion, and a loop to stay in once it has failed.
RomCalls == RomOf(<< \h2200, \h1202 >>)

\* A call and its return, a return on the empty stack (twice), and a jump to
\* the last two opcodes of memory.
RomReturn == RomOf(<< \h2204, \h00EE, \h00EE, \h1FFC >>)

\* A skip that is not taken, then a jump to the last byte of memory.
RomEdge == RomOf(<< \h4000, \h1FFF >>)

\* An opcode the decoder rejects.
RomBad == RomOf(<< \hE000 >>)

\* A ROM of exactly MAX_ROM_SIZE bytes: a jump to its last opcode, a skip
\* (taken when V0 = 0) that ends at address MEMORY_SIZE - 1.
RomMax ==
    [k \in 1..MAX_ROM_SIZE |->
       CASE k = 1 -> \h1F
         [] k = 2 -> \hFE
         [] k = MAX_ROM_SIZE - 1 -> \h30
         [] OTHER -> 0]

\* One byte more than fits.
RomOversize == [k \in 1..(MAX_ROM_SIZE + 1) |-> 0]

Roms == {RomKeys, RomCalls, RomReturn, RomEdge, RomBad, RomMax, RomOversize}

\* Masks given to set_input_keys (a u32): none, keys 3 and 15, and a bit
\* above the 16 keys.
KeyMasks == {0, \h8008, \h10000}

\* ------------------------------------------------------- state machine

VARIABLES
    state,          \* Chip8Interpreter.state
    timer_counter,  \* Chip8Interpreter.timer_counter
    last,           \* the last call made and what it returned
    loads,          \* try_load_rom calls since the last reset
    ticks,          \* ticks since the last reset that changed the machine
    obs             \* an observation window over successful ticks

vars == <<state, timer_counter, last, loads, ticks, obs>>

\* The record of a call: which, its result and argument, the pc, sp and timers
\* it found, and what tick noted.
CallRecord(op, result, arg, t) ==
    [ op |-> op, result |-> result, arg |-> arg, pc |-> state.pc, sp |-> state.sp,
      dt |-> state.dt, st |-> state.st, instr |-> t.instr, fetched |-> t.fetched, waited |-> t.waited,
      stack_write |-> t.stack_write ]

NoTick == [instr |-> NoInstruction, fetched |-> {}, waited |-> FALSE, stack_write |-> -1]

ObsIdle == [active |-> FALSE, n |-> 0, dt0 |-> 0, clean |-> TRUE, executed |-> TRUE]

\* A call that panicked has ended the process: nothing is called after it.
Alive == last.result.kind # "Panic"

\* Chip8Interpreter::new
Init ==
    /\ state = DefaultState
    /\ timer_counter = 0
    /\ last = [ op |-> "new", result |-> Ok, arg |-> 0, pc |-> BASE_ADDRESS, sp |-> 0,
                dt |-> 0, st |-> 0, instr |-> NoInstruction, fetched |-> {}, waited |-> FALSE,
                stack_write |-> -1 ]
    /\ loads = 0
    /\ ticks = 0
    /\ obs = ObsIdle

\* A bug leaving the timer cycle counter running across a reset.
Reset_keepscounter ==
    /\ Alive
    /\ state' = DefaultState
    /\ timer_counter' = timer_counter
    /\ last' = CallRecord("reset", Ok, 0, NoTick)
    /\ loads' = 0
    /\ ticks' = 0

\* Chip8Interpreter::reset
Reset ==
    /\ Alive
    /\ state' = DefaultState
    /\ timer_counter' = 0
    /\ last' = CallRecord("reset", Ok, 0, NoTick)
    /\ loads' = 0
    /\ ticks' = 0

\* One call of try_load_rom(rom): at most `most` of them after one reset, each
\* after at most `delay` ticks that changed the machine.
LoadRom(rom, most, delay) ==
    /\ Alive
    /\ loads < most
    /\ ticks <= delay
    /\ LET r == try_load_rom(state, rom)
       IN /\ state' = r.state
          /\ last' = CallRecord("load", r.result, Len(rom), NoTick)
    /\ loads' = loads + 1
    /\ UNCHANGED <<timer_counter, ticks>>

LoadFrom(roms) == \E rom \in roms : LoadRom(rom, MaxLoads, MaxLoadDelay)

Load == LoadFrom(Roms)

\* Chip8Interpreter::set_input_keys
SetInputKeys ==
    /\ Alive
    /\ \E keys \in KeyMasks :
         /\ state' = [state EXCEPT !.input_keys = keys]
         /\ last' = CallRecord("set_input_keys", Ok, keys, NoTick)
    /\ UNCHANGED <<timer_counter, loads, ticks>>

\* The bytes rand::random::<u8>() can return where the next tick draws one.
RandomBytes ==
    IF /\ ~PcOutOfBounds(state)
       /\ Mem(state, state.pc) \div 16 = 12
    THEN 0..255 ELSE {0}

\* One call of tick; a bounded run makes at most MaxTicks that change the
\* machine, an unbounded one stops counting them there.
Step(bounded) ==
    /\ Alive
    /\ bounded => ticks < MaxTicks
    /\ \E rnd \in RandomBytes :
         \E t \in {tick(state, timer_counter, rnd)} :
            /\ state' = t.state
            /\ timer_counter' = t.timer_counter
            /\ last' = CallRecord("tick", t.result, 0, t)
            /\ ticks' = IF (t.state = state /\ t.timer_counter = timer_counter)
                            \/ ticks >= MaxTicks
                         THEN ticks ELSE ticks + 1
    /\ UNCHANGED loads

Tick == Step(TRUE)

Next ==
    \/ Reset /\ UNCHANGED obs
    \/ Load /\ UNCHANGED obs
    \/ SetInputKeys /\ UNCHANGED obs
    \/ Tick /\ UNCHANGED obs

Spec == Init /\ [][Next]_vars

\* --------------------------------------------- observing timer windows

\* The programs run while a window of ticks is observed.
ObsRoms == {RomKeys, RomCalls}

\* The instructions that write a timer.
TimerWriters == {"SetDelayTimer", "SetSoundTimer"}

\* Start counting successful ticks from here, remembering delay_timer.
ObsStart ==
    /\ Alive
    /\ ~obs.active \/ obs.n = TIMER_TICK_INTERVAL
    /\ obs' = [ active |-> TRUE, n |-> 0, dt0 |-> state.dt, clean |-> TRUE,
                executed |-> TRUE ]
    /\ UNCHANGED <<state, timer_counter, last, loads, ticks>>

\* The window after a tick: a successful tick counts, and is noted when it
\* executed a timer write (not clean) or returned early waiting for a key (not
\* executed). A window of TIMER_TICK_INTERVAL ticks is over.
ObsTick ==
    obs' = IF ~obs.active \/ obs.n = TIMER_TICK_INTERVAL THEN ObsIdle
           ELSE IF last'.result # Ok THEN obs
           ELSE [obs EXCEPT !.n = @ + 1,
                            !.clean = @ /\ last'.instr.op \notin TimerWriters,
                            !.executed = @ /\ ~last'.waited]

NextObs ==
    \/ Reset /\ obs' = ObsIdle
    \/ LoadFrom(ObsRoms) /\ UNCHANGED obs
    \/ SetInputKeys /\ UNCHANGED obs
    \/ Tick /\ ObsTick
    \/ ObsStart

SpecObs == Init /\ [][NextObs]_vars

\* ------------------------------------------- a caller that keeps stepping

\* The programs run by the caller that never stops.
LiveRoms == {RomKeys, RomEdge}

\* One call of tick by a caller that never stops calling it.
LiveTick == Step(FALSE)

\* A call of tick made while input_keys is not 0.
TickHeld == state.input_keys # 0 /\ LiveTick

NextLive ==
    \/ Reset /\ UNCHANGED obs
    \/ LoadFrom(LiveRoms) /\ UNCHANGED obs
    \/ SetInputKeys /\ UNCHANGED obs
    \/ LiveTick /\ UNCHANGED obs

\* A caller of the interpreter that keeps stepping: whenever input_keys is not
\* 0 again and again, it calls tick while it is so. (The front end is such a
\* caller while it runs: update calls set_input_keys and then tick, 20 times,
\* before it does anything else, app/mod.rs:89-96.)
SpecLive == Init /\ [][NextLive]_vars /\ SF_vars(TickHeld /\ UNCHANGED obs)

\* ------------------------------------- a caller that reloads and peeks

\* The most try_load_rom calls this caller makes after one reset.
MaxReloads == 2

\* It loads after at most this many ticks that changed the machine.
MaxReloadDelay == 5

\* Sets V0, stores it inside the font table (address 4) and above the program
\* (address 0x300), then stops on an opcode the decoder rejects.
RomStore == RomOf(<< \h6011, \hA004, \hF055, \hA300, \hF055, \hE000 >>)

ApiRoms == {RomStore, RomBad, RomCalls}

\* The addresses given to try_read_instruction (a usize): the start of memory
\* and of the program, an odd address, and those around MEMORY_SIZE - 2.
PeekAddresses == {0, 512, 513, 4093, 4094, 4095, 4096, 65536}

\* What this caller notes at a load: the ROM, and the machine it found.
ApiNote(rom) == [rom |-> rom, before |-> state, counter |-> timer_counter]

LoadNoted ==
    \E rom \in ApiRoms :
       /\ LoadRom(rom, MaxReloads, MaxReloadDelay)
       /\ obs' = ApiNote(rom)

\* One call of try_read_instruction(address): it takes &self, so the machine
\* is as it was; the call record keeps the instruction or the error returned.
Peek ==
    /\ Alive
    /\ \E address \in PeekAddresses :
         LET r == try_read_instruction(state, address)
         IN last' = CallRecord("peek", IF r.ok THEN Ok ELSE r.err, address,
                               [NoTick EXCEPT !.instr =
                                  IF r.ok THEN r.instr ELSE NoInstruction])
    /\ UNCHANGED <<state, timer_counter, loads, ticks>>

\* This caller stops ticking once it can load no more.
ApiTick == ticks <= MaxReloadDelay /\ Tick

NextApi ==
    \/ Reset /\ UNCHANGED obs
    \/ LoadNoted
    \/ ApiTick /\ UNCHANGED obs
    \/ Peek /\ UNCHANGED obs

SpecApi == Init /\ [][NextApi]_vars

\* ------------------------------------------------- the decoder alone

\* Every u16.
Opcodes == 0..65535

\* One call of Chip8Instruction::try_from(opcode), on a new interpreter; the
\* call record keeps the instruction or the error returned.
Decode ==
    /\ last.op = "new"
    /\ \E opcode \in Opcodes :
         LET r == try_from(opcode)
         IN last' = CallRecord("decode", IF r.ok THEN Ok ELSE r.err, opcode,
                               [NoTick EXCEPT !.instr =
                                  IF r.ok THEN r.instr ELSE NoInstruction])
    /\ UNCHANGED <<state, timer_counter, loads, ticks>>

NextDecode == Decode /\ UNCHANGED obs

SpecDecode == Init /\ [][NextDecode]_vars

\* ------------------------------------------------ arithmetic programs

\* The registers the arithmetic programs use: two plain ones and the flag
\* register.
AluRegisters == {0, 3, 15}

\* The bytes they compute on: the ends of the range, and pairs around a carry
\* (100 + 156, 200 + 100, 255 + 1) and a borrow (5 - 10, 10 - 5, equal values).
AluValues == {0, 1, 5, 10, 100, 156, 200, 255}

\* The low nibbles of AddRegister, SubtractVxVy and SubtractVyVx.
AluOps == {4, 5, 7}

\* Vx = a; Vy = b; the class-8 instruction n on x and y; then an opcode the
\* decoder rejects.
RomAlu(x, a, y, b, n) ==
    RomOf(<< 24576 + x * 256 + a, 24576 + y * 256 + b,
             32768 + x * 256 + y * 16 + n, \hE000 >>)

\* Vx = a; Vx += v (AddValue); then an opcode the decoder rejects.
RomAddValue(x, a, v) ==
    RomOf(<< 24576 + x * 256 + a, 28672 + x * 256 + v, \hE000 >>)

AluRoms ==
    { RomAlu(x, a, y, b, n) :
        x \in AluRegisters, a \in AluValues, y \in AluRegisters, b \in AluValues,
        n \in AluOps }
    \cup { RomAddValue(x, a, v) : x \in AluRegisters, a \in AluValues, v \in AluValues }

\* These programs are loaded into a new interpreter.
LoadAlu == last.op = "new" /\ \E rom \in AluRoms : LoadRom(rom, MaxLoads, 0)

NextAlu ==
    \/ LoadAlu /\ UNCHANGED obs
    \/ Tick /\ UNCHANGED obs

SpecAlu == Init /\ [][NextAlu]_vars

\* --------------------------------------------------- drawing programs

\* Where the sprite of the first draw is read from: the glyph "0" of the font
\* table, or zero bytes.
BackgroundSprites == {0, 768}

\* The register pairs of the draws: two plain registers, the flag register as x
\* and as y, and one register as both.
DrawPairs == {<<2, 3>>, <<15, 3>>, <<2, 15>>, <<4, 4>>}

\* The values of Vx and Vy: on the first sprite, beside it, at the right and
\* bottom edges (wrapping), and beyond the screen.
DrawColumns == {0, 1, 60, 255}

DrawLines == {0, 30}

\* Where the sprite is read from: the glyphs "0" and "1", the program itself,
\* zero bytes.
DrawSprites == {0, 5, 512, 768}

DrawLengths == {0, 1, 5, 15}

\* Draws 5 rows from bg at (0, 0); sets VF = 9, Vx = vx, Vy = vy, I = sprite;
\* executes Draw {x, y, len} three times; then an opcode the decoder rejects.
RomDraw(bg, x, vx, y, vy, sprite, len) ==
    RomOf(<< \h6000, \h6100, 40960 + bg, \hD015,
             \h6F09, 24576 + x * 256 + vx, 24576 + y * 256 + vy, 40960 + sprite,
             53248 + x * 256 + y * 16 + len,
             53248 + x * 256 + y * 16 + len,
             53248 + x * 256 + y * 16 + len,
             \hE000 >>)

\* The instructions that access memory through I: Draw of 1 and of 2 rows,
\* StoreBcd, StoreRegisters and LoadRegisters of 1 and of 2 registers.
IndexedOpcodes == {\hD001, \hD002, \hF033, \hF055, \hF155, \hF065, \hF165}

\* Sets I = address, adds V0 = more to it (AddIndex), executes the instruction;
\* then an opcode the decoder rejects.
RomIndexed(address, more, opcode) ==
    RomOf(<< 40960 + address, 24576 + more, \hF01E, opcode, \hE000 >>)

DrawRoms ==
    { RomDraw(bg, p[1], vx, p[2], vy, sprite, len) :
        bg \in BackgroundSprites, p \in DrawPairs, vx \in DrawColumns,
        vy \in DrawLines, sprite \in DrawSprites, len \in DrawLengths }
    \cup { RomIndexed(address, more, opcode) :
             address \in {4093, 4095}, more \in {0, 1, 2}, opcode \in IndexedOpcodes }

\* These programs are loaded into a new interpreter.
LoadDraw == last.op = "new" /\ \E rom \in DrawRoms : LoadRom(rom, MaxLoads, 0)

\* What is noted at a tick: the state it found and, when the call before it
\* was a tick that executed an instruction, that instruction and the state it
\* in turn had found.
DrawNote ==
    [ prev |-> state,
      first |-> IF last.op = "tick" /\ last.result = Ok /\ ~last.waited
                THEN [instr |-> last.instr, before |-> obs.prev]
                ELSE [instr |-> NoInstruction, before |-> state] ]

NextDraw ==
    \/ LoadDraw /\ UNCHANGED obs
    \/ Tick /\ obs' = DrawNote

SpecDraw == Init /\ [][NextDraw]_vars

\* ================================================================ claims

\* The call just made was tick.
Ticked == last.op = "tick"

\* tick would decode WaitForKey at pc.
WaitingAt(s) ==
    /\ ~PcOutOfBounds(s)
    /\ LET dec == try_from(Mem(s, s.pc) * 256 + Mem(s, s.pc + 1))
       IN dec.ok /\ dec.instr.op = "WaitForKey"

\* C1: a tick that finds WaitForKey at pc and input_keys = 0 returns Ok and
\* leaves the whole machine as it was: every field of the state (pc,
\* registers, stack, sp, memory, screen, i, dt, st, input_keys) and the timer
\* cycle counter.
C1_WaitLeavesMachineUnchanged ==
    [][ (last'.op = "tick" /\ WaitingAt(state) /\ state.input_keys = 0)
        => /\ last'.result = Ok
           /\ state' = state
           /\ timer_counter' = timer_counter ]_vars

\* A tick has returned early on WaitForKey while both timers were running and
\* the cycle counter was under way.
C1_Witness ==
    /\ Ticked /\ last.waited /\ last.result = Ok
    /\ state.input_keys = 0
    /\ state.dt > 0 /\ state.st > 0 /\ timer_counter > 0

\* C2: while pc is at a WaitForKey, a tick with input_keys = 0 leaves pc where
\* it is; a tick with input_keys # 0 succeeds and leaves pc 2 further; and so,
\* when the caller keeps stepping and keys are held again and again, a machine
\* at a WaitForKey eventually leaves it.
C2_WaitRetriedUntilKey ==
    /\ [][ (last'.op = "tick" /\ WaitingAt(state) /\ state.input_keys = 0)
           => state'.pc = state.pc ]_vars
    /\ [][ (last'.op = "tick" /\ WaitingAt(state) /\ state.input_keys # 0)
           => /\ last'.result = Ok
              /\ ~last'.waited
              /\ state'.pc = state.pc + 2 ]_vars
    /\ ( []<>(state.input_keys # 0)
         => (WaitingAt(state) ~> ~WaitingAt(state)) )

\* A tick has completed a WaitForKey with keys 3 and 15 held: pc is 2 further
\* and the register names key 3.
C2_Witness ==
    /\ Ticked /\ last.instr.op = "WaitForKey" /\ ~last.waited
    /\ last.result = Ok
    /\ state.input_keys # 0
    /\ state.pc = last.pc + 2
    /\ state.registers[last.instr.register] = 3

\* C3: no tick returns ExpectingInputKey.
C3_NeverExpectingInputKey ==
    Ticked => last.result.kind # "ExpectingInputKey"

\* A tick has found WaitForKey with no key held, and returned Ok.
C3_Witness ==
    /\ Ticked /\ last.instr.op = "WaitForKey"
    /\ state.input_keys = 0
    /\ last.result.kind = "Ok"

\* C4: a tick fails with ProgramCounterOutOfBounds(pc) exactly when
\* pc + 1 >= 4096, and then fetches nothing; every other tick fetches the two
\* bytes at pc and pc + 1, both inside memory.
C4_FetchInsideMemory ==
    Ticked =>
      /\ (last.result = Err("ProgramCounterOutOfBounds", last.pc)) <=> (last.pc + 1 >= 4096)
      /\ (last.result.kind = "ProgramCounterOutOfBounds") <=> (last.pc + 1 >= 4096)
      /\ last.pc + 1 >= 4096 => last.fetched = {}
      /\ last.pc + 1 < 4096 => last.fetched = {last.pc, last.pc + 1}
      /\ last.fetched \subseteq 0..4095
      /\ last.result # Panic

\* A tick at pc = 4095 (whose second byte would be outside memory) has failed.
C4_Witness ==
    /\ Ticked /\ last.pc = 4095
    /\ last.result = Err("ProgramCounterOutOfBounds", 4095)
    /\ last.fetched = {}

\* C5: stack_pointer is always in 0..32, and a stack slot is only written at an
\* index in 0..31.
C5_StackPointerInBounds ==
    /\ state.sp \in 0..32
    /\ last.stack_write # -1 => last.stack_write \in 0..31

\* The last slot has been written and the stack is full.
C5_Witness == state.sp = 32 /\ last.stack_write = 31

\* C6: a tick executing Call fails with CallStackDepthExceeded when sp is 32
\* and succeeds when sp < 32; a tick executing Return fails with CallStackEmpty
\* when sp is 0 and succeeds when sp > 0.
C6_CallReturnErrors ==
    /\ (Ticked /\ last.instr.op = "Call") =>
         /\ last.sp = 32 => last.result = Err("CallStackDepthExceeded", 0)
         /\ last.sp < 32 => last.result = Ok
    /\ (Ticked /\ last.instr.op = "Return") =>
         /\ last.sp = 0 => last.result = Err("CallStackEmpty", 0)
         /\ last.sp > 0 => last.result = Ok

\* A Call has failed on the full stack.
C6_Witness ==
    /\ Ticked /\ last.instr.op = "Call" /\ last.sp = 32
    /\ last.result.kind = "CallStackDepthExceeded"

\* C7: after a successful tick executing Jump, pc is the jump's address; after
\* a successful tick executing Call from pc = A, pc is the call's address, sp
\* has grown by 1 and the slot written (the old top) holds A + 2.
C7_AdvanceBeforeEffect ==
    /\ (Ticked /\ last.result = Ok /\ last.instr.op = "Jump") =>
         state.pc = last.instr.address
    /\ (Ticked /\ last.result = Ok /\ last.instr.op = "Call") =>
         /\ state.pc = last.instr.address
         /\ state.sp = last.sp + 1
         /\ last.stack_write = last.sp
         /\ state.stack[last.sp] = last.pc + 2

\* A nested Call to another address than the next instruction's has succeeded.
C7_Witness ==
    /\ Ticked /\ last.result = Ok /\ last.instr.op = "Call"
    /\ last.sp > 0
    /\ state.pc # last.pc + 2
    /\ state.stack[last.sp] = last.pc + 2

\* A window of TIMER_TICK_INTERVAL successful ticks is complete.
WindowDone == obs.active /\ obs.n = TIMER_TICK_INTERVAL

\* The statement of C8 as written: after exactly TICKS_PER_SECOND / 60 = 8
\* successful ticks, none of which executes an instruction that writes the
\* timers, a delay_timer that was > 0 beforehand has decreased by exactly 1.
C8_AsWritten ==
    (WindowDone /\ obs.clean /\ obs.dt0 > 0) => state.dt = obs.dt0 - 1

\* C8: after exactly TICKS_PER_SECOND / 60 = 8 successful ticks, each of which
\* executes an instruction (none is the early return of a WaitForKey with no
\* key held) and none of which executes an instruction that writes the timers,
\* a delay_timer that was > 0 beforehand has decreased by exactly 1.
C8_TimerDecay ==
    (WindowDone /\ obs.clean /\ obs.executed /\ obs.dt0 > 0)
      => state.dt = obs.dt0 - 1

\* Such a window is complete: 8 ticks that each executed an instruction, none
\* writing a timer, begun with delay_timer > 0 in the middle of a timer cycle.
C8_Witness ==
    /\ WindowDone /\ obs.clean /\ obs.executed /\ obs.dt0 > 0
    /\ timer_counter \notin {0, TIMER_TICK_INTERVAL - 1}
    /\ state.dt = obs.dt0 - 1

\* The timer update fired in the tick just made: the tick executed an
\* instruction successfully and left the cycle counter at 0.
TimersFired == Ticked /\ last.result = Ok /\ ~last.waited /\ timer_counter = 0

\* The value the update found in a timer: what the instruction just executed
\* wrote there, or else what the tick found.
DelayAtUpdate ==
    IF last.instr.op = "SetDelayTimer" THEN state.registers[last.instr.register]
    ELSE last.dt

SoundAtUpdate ==
    IF last.instr.op = "SetSoundTimer" THEN state.registers[last.instr.register]
    ELSE last.st

\* C9: both timers are always in 0..255, and when the timer update fires a
\* timer that is 0 stays 0 (it does not wrap to 255) while a timer that is > 0
\* decreases by exactly 1.
C9_TimersFlooredAtZero ==
    /\ state.dt \in 0..255
    /\ state.st \in 0..255
    /\ TimersFired =>
         /\ state.dt = IF DelayAtUpdate > 0 THEN DelayAtUpdate - 1 ELSE 0
         /\ state.st = IF SoundAtUpdate > 0 THEN SoundAtUpdate - 1 ELSE 0

\* The update has fired on a delay_timer of 0 and a running sound_timer: the
\* first stays 0, the second has lost 1.
C9_Witness ==
    /\ TimersFired
    /\ last.instr.op \notin TimerWriters
    /\ last.dt = 0 /\ state.dt = 0
    /\ last.st > 0 /\ state.st = last.st - 1

\* C10: try_load_rom fails with RomFileTooLarge exactly when the ROM is longer
\* than 4096 - 512 = 3584 bytes (3585 fails, 3584 succeeds), and a failed load
\* leaves the state and the timer cycle counter as they were.
C10_RomSizeLimit ==
    [][ last'.op = "load" =>
          /\ (last'.result.kind = "RomFileTooLarge") <=> (last'.arg > 3584)
          /\ (last'.arg <= 3584) => (last'.result = Ok)
          /\ (last'.result # Ok) => (state' = state /\ timer_counter' = timer_counter)
      ]_vars

\* A ROM of 3585 bytes has been refused.
C10_Witness ==
    /\ last.op = "load" /\ last.arg = 3585
    /\ last.result.kind = "RomFileTooLarge"

\* try_load_rom has just succeeded.
Loaded == last.op = "load" /\ last.result = Ok

\* C11: after a successful try_load_rom(rom), memory[0x200 + k] = rom[k] for
\* every k < len(rom) and every other byte of memory is as before (below 0x200
\* and from 0x200 + len(rom) on, not zeroed); registers, stack, sp, pc, i, both
\* timers, screen, input_keys and the timer cycle counter are as before.
C11_LoadWritesOnlyTheRom ==
    Loaded =>
      /\ \A a \in Addresses :
           Mem(state, a) = IF a >= 512 /\ a < 512 + Len(obs.rom)
                           THEN obs.rom[a - 512 + 1]
                           ELSE Mem(obs.before, a)
      /\ state.registers = obs.before.registers
      /\ state.stack = obs.before.stack
      /\ state.sp = obs.before.sp
      /\ state.pc = obs.before.pc
      /\ state.i = obs.before.i
      /\ state.dt = obs.before.dt
      /\ state.st = obs.before.st
      /\ state.screen = obs.before.screen
      /\ state.input_keys = obs.before.input_keys
      /\ timer_counter = obs.counter

\* A 2-byte ROM has been loaded over a program that had run: the bytes that
\* program stored in the font table and at 0x300 and its own bytes above the new
\* ROM are still there, and so are V0, i and the pc it had reached.
C11_Witness ==
    /\ Loaded /\ Len(obs.rom) = 2
    /\ Mem(state, 512) = 224 /\ Mem(state, 514) = 160
    /\ Mem(state, 4) = 17 /\ Mem(state, 768) = 17
    /\ state.registers[0] = 17 /\ state.i = 768 /\ state.pc = 522

\* C12: after reset, from whatever state, the machine is one and the same start
\* state: registers, stack, sp, screen, i, both timers and input_keys are zero,
\* pc = 0x200, memory holds the font table at its start and zero after it, and
\* the timer cycle counter is zero.  (The machine is these two fields only, so
\* a second reset changes nothing and later ticks do not depend on the past.)
C12_ResetStartState ==
    last.op = "reset" =>
      /\ state.registers = [r \in 0..15 |-> 0]
      /\ state.stack = [k \in 0..31 |-> 0]
      /\ state.sp = 0
      /\ state.screen = {}
      /\ state.i = 0
      /\ state.dt = 0
      /\ state.st = 0
      /\ state.input_keys = 0
      /\ state.pc = 512
      /\ \A a \in Addresses :
           Mem(state, a) = IF a < Len(FONT_ROM) THEN FONT_ROM[a + 1] ELSE 0
      /\ DOMAIN state = DOMAIN DefaultState
      /\ timer_counter = 0

\* A reset has been made on a machine that had run: pc had moved and the
\* delay timer was running.
C12_Witness ==
    /\ last.op = "reset"
    /\ last.pc > 512 /\ last.dt > 0
    /\ state.pc = 512 /\ state.dt = 0 /\ state.input_keys = 0

\* try_read_instruction has just been called.
Peeked == last.op = "peek"

\* What try_read_instruction returned, as the decoder's result.
PeekResult ==
    IF last.result = Ok THEN [ok |-> TRUE, instr |-> last.instr]
    ELSE [ok |-> FALSE, err |-> last.result]

\* C13: try_read_instruction(address) leaves the machine as it was; it fails
\* with MemoryAccessError when address >= 4096 - 2 and otherwise returns what
\* the decoder returns for memory[address] * 256 + memory[address + 1]; called
\* at 0x200 right after a successful load of a ROM of at least two bytes, it
\* returns the decoding of the ROM's first two bytes.
C13_PeekDecodesWithoutEffect ==
    [][ last'.op = "peek" =>
          /\ state' = state
          /\ timer_counter' = timer_counter
          /\ (last'.arg >= 4094) =>
                last'.result = Err("MemoryAccessError", 0)
          /\ (last'.arg < 4094) =>
                LET opcode == Mem(state, last'.arg) * 256 + Mem(state, last'.arg + 1)
                    dec == try_from(opcode)
                IN IF dec.ok
                   THEN last'.result = Ok /\ last'.instr = dec.instr
                   ELSE last'.result = Err("InvalidInstruction", opcode)
          /\ (Loaded /\ Len(obs.rom) >= 2 /\ last'.arg = 512) =>
                LET dec == try_from(obs.rom[1] * 256 + obs.rom[2])
                IN IF dec.ok
                   THEN last'.result = Ok /\ last'.instr = dec.instr
                   ELSE last'.result = dec.err
      ]_vars

\* Right after a reload over a program that had run, the instruction at 0x200
\* has been read: it is the new ROM's first (a call), not the old one's.
C13_Witness ==
    /\ Peeked /\ last.arg = 512
    /\ PeekResult = [ok |-> TRUE, instr |-> [op |-> "Call", address |-> 512]]
    /\ Len(obs.rom) = 4
    /\ Mem(state, 516) = 240
    /\ state.pc > 512

\* try_from has just been called, on the opcode last.arg.
Decoded16 == last.op = "decode"

\* C14: for every 16-bit opcode whose high nibble is one of 0, 1, 2, 3, 4, 6,
\* 7, 9, A, B, C, D, the decoder succeeds; in class 0, 0x00E0 is ClearScreen,
\* 0x00EE is Return and every other value is the no-op.
C14_DecodeTotalOnPlainClasses ==
    (Decoded16 /\ (last.arg \div 4096) \in {0, 1, 2, 3, 4, 6, 7, 9, 10, 11, 12, 13}) =>
      /\ last.result = Ok
      /\ last.instr.op # "None"
      /\ (last.arg \div 4096 = 0) =>
           last.instr = [op |-> IF last.arg = 224 THEN "ClearScreen"
                                ELSE IF last.arg = 238 THEN "Return"
                                ELSE "NoOperation"]

\* 0x0FFF, a class-0 opcode that is neither 00E0 nor 00EE, has decoded to the
\* no-op.
C14_Witness ==
    /\ Decoded16 /\ last.arg = 4095
    /\ last.result = Ok /\ last.instr.op = "NoOperation"

\* The opcodes with no instruction: class 8 with a low nibble outside 0..7 and
\* E, class E with a low byte other than 9E and A1, class F with a low byte
\* outside 07, 0A, 15, 18, 1E, 29, 33, 55, 65.
Unmapped(opcode) ==
    \/ opcode \div 4096 = 8 /\ (opcode % 16) \notin {0, 1, 2, 3, 4, 5, 6, 7, 14}
    \/ opcode \div 4096 = 14 /\ (opcode % 256) \notin {158, 161}
    \/ opcode \div 4096 = 15 /\ (opcode % 256) \notin {7, 10, 21, 24, 30, 41, 51, 85, 101}

\* C15: the decoder fails exactly on the unmapped opcodes, and the error is
\* InvalidInstruction carrying the 16-bit opcode unchanged.
C15_DecodeFailsOnUnmapped ==
    Decoded16 =>
      /\ (last.result # Ok) <=> Unmapped(last.arg)
      /\ (last.result # Ok) => last.result = Err("InvalidInstruction", last.arg)

\* 0x8FF8 (class 8, low nibble 8) has been refused, with all its 16 bits.
C15_Witness ==
    /\ Decoded16 /\ last.arg = 36856
    /\ last.result = Err("InvalidInstruction", 36856)

\* The step is a successful tick executing the instruction named op.
Executes(op) ==
    last'.op = "tick" /\ last'.result = Ok /\ ~last'.waited /\ last'.instr.op = op

\* Every register but x and the flag register is as it was.
OtherRegistersKept(x) ==
    \A r \in 0..15 : r \notin {x, 15} => state'.registers[r] = state.registers[r]

\* C16: a tick executing AddValue {register, value} leaves register 15 at 1
\* when register + value does not exceed 255 and at 0 when it does, and for
\* register # 15 leaves the register at (old value + value) mod 256.
C16_AddValueInvertedFlag ==
    [][ Executes("AddValue") =>
          LET r == last'.instr.register
              sum == state.registers[r] + last'.instr.value
          IN /\ state'.registers[15] = IF sum > 255 THEN 0 ELSE 1
             /\ (r # 15) => state'.registers[r] = sum % 256
             /\ OtherRegistersKept(r)
      ]_vars

\* V3 = 100 has had 156 added: it is 0, and the flag is 0.
C16_Witness ==
    /\ Ticked /\ last.result = Ok
    /\ last.instr = [op |-> "AddValue", register |-> 3, value |-> 156]
    /\ state.registers[3] = 0
    /\ state.registers[15] = 0

\* The flag and the result of the register instruction op on the bytes a = Vx
\* and b = Vy, as C17 states them.
FlagOf(op, a, b) ==
    CASE op = "AddRegister" -> IF a + b > 255 THEN 1 ELSE 0
      [] op = "SubtractVxVy" -> IF a >= b THEN 1 ELSE 0
      [] op = "SubtractVyVx" -> IF b >= a THEN 1 ELSE 0

ResultOf(op, a, b) ==
    CASE op = "AddRegister" -> (a + b) % 256
      [] op = "SubtractVxVy" -> (a - b) % 256
      [] op = "SubtractVyVx" -> (b - a) % 256

\* C17: a tick executing AddRegister, SubtractVxVy or SubtractVyVx on x and y
\* leaves register 15 at 1 iff Vx + Vy > 255, iff Vx >= Vy, iff Vy >= Vx
\* respectively, and else at 0; for x # 15 it leaves register x at
\* (Vx + Vy) mod 256, (Vx - Vy) mod 256, (Vy - Vx) mod 256 respectively; for
\* x = 15 the register ends holding the flag.
C17_RegisterArithmeticFlags ==
    [][ \A op \in {"AddRegister", "SubtractVxVy", "SubtractVyVx"} :
          Executes(op) =>
            LET x == last'.instr.x
                a == state.registers[x]
                b == state.registers[last'.instr.y]
            IN /\ state'.registers[15] = FlagOf(op, a, b)
               /\ (x # 15) => state'.registers[x] = ResultOf(op, a, b)
               /\ OtherRegistersKept(x)
      ]_vars

\* V0 = 5 has had V3 = 10 subtracted: it is 251, and the flag is 0.
C17_Witness ==
    /\ Ticked /\ last.result = Ok
    /\ last.instr = [op |-> "SubtractVxVy", x |-> 0, y |-> 3]
    /\ state.registers[0] = 251
    /\ state.registers[3] = 10
    /\ state.registers[15] = 0

\* The call just made was a tick that executed Draw successfully.
DrewLast == Ticked /\ last.result = Ok /\ ~last.waited /\ last.instr.op = "Draw"

\* The pixel of column Vx + c and line Vy + r, wrapping, Vx and Vy read in s.
DrawnPixel(s, c, r) ==
    << (s.registers[last.instr.x] + c) % 64, (s.registers[last.instr.y] + r) % 32 >>

\* Bit c, counted from the most significant, of sprite row r read through I
\* in s, is set.
SpriteBitSet(s, c, r) == (Mem(s, s.i + r) \div Pow2(7 - c)) % 2 = 1

\* C18: a tick that executes Draw {x, y, len} successfully toggles, for each
\* row r < len and each c in 0..7, the pixel at column (Vx + c) mod 64 of line
\* (Vy + r) mod 32 exactly when bit c (most significant first) of memory[I + r]
\* is set, leaves every other pixel as it was, and leaves register 15 at 1 if
\* some pixel went from set to unset and at 0 otherwise.
C18_DrawXorsSprite ==
    DrewLast =>
      LET before == obs.prev
          rows == 0..(last.instr.len - 1)
          covered == { DrawnPixel(before, c, r) : c \in 0..7, r \in rows }
      IN /\ \A r \in rows, c \in 0..7 :
              LET p == DrawnPixel(before, c, r)
              IN (p \in state.screen)
                   <=> ((p \in before.screen) # SpriteBitSet(before, c, r))
         /\ state.screen \ covered = before.screen \ covered
         /\ state.registers[15] =
              IF \E p \in before.screen : p \notin state.screen THEN 1 ELSE 0

\* The program's own bytes have been drawn as a sprite from column 60 and line
\* 30 over a lit glyph, with register 15 at 9 beforehand: the sprite wrapped on
\* both axes (pixel (3, 0), lit before, is now unset; pixel (61, 30) is lit)
\* and register 15 is 1.
C18_Witness ==
    /\ DrewLast /\ last.instr.len = 5
    /\ obs.prev.i = 512
    /\ obs.prev.registers[last.instr.x] = 60
    /\ obs.prev.registers[last.instr.y] = 30
    /\ obs.prev.registers[15] = 9
    /\ <<3, 0>> \in obs.prev.screen /\ <<3, 0>> \notin state.screen
    /\ <<61, 30>> \in state.screen
    /\ state.registers[15] = 1

\* The last two calls were ticks that executed one and the same Draw
\* instruction successfully, with the same I and the same sprite bytes.
DrewTwice ==
    /\ DrewLast
    /\ obs.first.instr = last.instr
    /\ obs.prev.i = obs.first.before.i
    /\ \A r \in 0..(last.instr.len - 1) :
         Mem(obs.prev, obs.prev.i + r) = Mem(obs.first.before, obs.prev.i + r)

\* The sprite drawn has a set pixel.
SpriteHasSetPixel ==
    \E r \in 0..(last.instr.len - 1), c \in 0..7 : SpriteBitSet(obs.prev, c, r)

\* The statement of C19 as written: the same Draw executed twice in a row, with
\* the same I and sprite bytes, from any screen content, restores the screen
\* to what it was before the first draw, and the second draw leaves register 15
\* at 1 whenever the sprite has a set pixel.
C19_AsWritten ==
    DrewTwice =>
      /\ state.screen = obs.first.before.screen
      /\ SpriteHasSetPixel => state.registers[15] = 1

\* Both draws read the same Vx and Vy.
SamePosition ==
    /\ obs.prev.registers[last.instr.x] = obs.first.before.registers[last.instr.x]
    /\ obs.prev.registers[last.instr.y] = obs.first.before.registers[last.instr.y]

\* C19: the same Draw executed twice in a row at the same position (Vx and Vy
\* the same at both draws, which the first draw's write of register 15 can
\* undo when x or y is 15), with the same I and sprite bytes, restores the
\* screen to what it was before the first draw; the second draw leaves
\* register 15 at 1 exactly when some set pixel of the sprite was unset on the
\* screen before the first draw.
C19_DrawTwiceRestores ==
    (DrewTwice /\ SamePosition) =>
      /\ state.screen = obs.first.before.screen
      /\ (state.registers[15] = 1) <=>
           \E r \in 0..(last.instr.len - 1), c \in 0..7 :
              /\ SpriteBitSet(obs.prev, c, r)
              /\ DrawnPixel(obs.prev, c, r) \notin obs.first.before.screen
      /\ state.registers[15] \in {0, 1}

\* A sprite has been drawn twice beside a lit glyph that it overlaps in part:
\* the first draw changed the screen, the second has put it back and left
\* register 15 at 1.
C19_Witness ==
    /\ DrewTwice /\ SamePosition /\ SpriteHasSetPixel
    /\ obs.first.before.screen # {}
    /\ obs.prev.screen # obs.first.before.screen
    /\ obs.first.before.registers[last.instr.x] = 1
    /\ state.screen = obs.first.before.screen
    /\ state.registers[15] = 1

\* The call just made was a tick that decoded an instruction accessing memory
\* through I.
IndexedAccess ==
    Ticked /\ last.instr.op \in {"Draw", "StoreBcd", "StoreRegisters", "LoadRegisters"}

\* The number of bytes the instruction accesses from I on.
AccessLength ==
    CASE last.instr.op = "Draw" -> last.instr.len
      [] last.instr.op = "StoreBcd" -> 3
      [] OTHER -> last.instr.count

\* The statement of C20 as written: a tick executing an instruction that
\* accesses memory through I either succeeds, touching only addresses in
\* 0..4095, or fails with MemoryAccessError.
C20_IndexedAccessChecked ==
    IndexedAccess =>
      \/ /\ last.result = Ok
         /\ \A k \in 0..(AccessLength - 1) : (obs.prev.i + k) \in 0..4095
      \/ last.result = Err("MemoryAccessError", 0)

\* ------------------------------------------- skips, jumps and failures

\* The registers the skip programs name: plain ones and the flag register.
FlowRegisters == {1, 15}

\* The values a key skip finds in its register: keys 0, 3 and 15, and values
\* above the 16 keys.
KeyValues == {0, 3, 15, 16, 255}

\* The low bytes of SkipIfKeyPressed and SkipIfKeyNotPressed.
KeySkipBytes == {158, 161}

\* Vx = v; the key skip on x; then opcodes the decoder rejects.
RomKeySkip(x, v, low) ==
    RomOf(<< 24576 + x * 256 + v, 57344 + x * 256 + low, \hE000, \hE000 >>)

\* The bytes the register skips compare.
SkipValues == {0, 7, 255}

\* Vx = a; the class-c skip (3 or 4) on x and kk; opcodes the decoder rejects.
RomSkipValue(c, x, a, kk) ==
    RomOf(<< 24576 + x * 256 + a, c * 4096 + x * 256 + kk, \hE000, \hE000 >>)

\* The register pairs of the class-5 and class-9 skips.
SkipPairs == {<<1, 2>>, <<2, 2>>, <<15, 1>>}

\* Vx = a; Vy = b; the class-c skip (5 or 9) on x and y with low nibble n;
\* opcodes the decoder rejects.
RomSkipRegister(c, x, a, y, b, n) ==
    RomOf(<< 24576 + x * 256 + a, 24576 + y * 256 + b,
             c * 4096 + x * 256 + y * 16 + n, \hE000, \hE000 >>)

\* The operands of JumpRelative: around the top of memory.
JumpOffsets == {0, 1, 255}

JumpAddresses == {3838, 3840, 3841, 4093, 4094, 4095}

\* V0 = v0; JumpRelative {address}; an opcode the decoder rejects.
RomJumpRelative(v0, address) ==
    RomOf(<< 24576 + v0, 45056 + address, \hE000 >>)

\* Sets I = 4095, V0 = 0x11 and V1 = 0x22, then executes one failing
\* instruction after the other: StoreRegisters and LoadRegisters of 2
\* registers, StoreBcd, Return on the empty stack, a key skip on V0, and
\* JumpRelative {4095}; then an opcode the decoder rejects.
RomFailures ==
    RomOf(<< \hAFFF, \h6011, \h6122, \hF155, \hF165, \hF033, \h00EE, \hE09E,
             \hBFFF, \hE000 >>)

FlowRoms ==
    { RomKeySkip(x, v, low) : x \in FlowRegisters, v \in KeyValues, low \in KeySkipBytes }
    \cup { RomSkipValue(c, x, a, kk) :
             c \in {3, 4}, x \in FlowRegisters, a \in SkipValues, kk \in SkipValues }
    \cup { RomSkipRegister(c, p[1], a, p[2], b, n) :
             c \in {5, 9}, p \in SkipPairs, a \in SkipValues, b \in SkipValues,
             n \in 0..15 }
    \cup { RomJumpRelative(v0, address) : v0 \in JumpOffsets, address \in JumpAddresses }
    \cup { RomIndexed(4095, more, opcode) :
             more \in {0, 1, 2}, opcode \in {\hF033, \hF155, \hF165} }
    \cup { RomCalls, RomReturn, RomFailures }

\* These programs are loaded into a new interpreter.
LoadFlow == last.op = "new" /\ \E rom \in FlowRoms : LoadRom(rom, MaxLoads, 0)

NextFlow ==
    \/ LoadFlow /\ UNCHANGED obs
    \/ SetInputKeys /\ UNCHANGED obs
    \/ Tick /\ UNCHANGED obs

SpecFlow == Init /\ [][NextFlow]_vars

\* The step is a tick that decoded the instruction named op and went on to
\* execute it, successfully or not.
Dispatches(op) == last'.op = "tick" /\ ~last'.waited /\ last'.instr.op = op

\* C21: a tick executing SkipIfKeyPressed or SkipIfKeyNotPressed on a register
\* holding v > 15 fails with InvalidInputKey(v); when v <= 15 it succeeds, and
\* SkipIfKeyPressed leaves pc at old pc + 4 iff bit v of input_keys is set
\* (else at old pc + 2), SkipIfKeyNotPressed at old pc + 4 iff that bit is
\* clear (else at old pc + 2).
C21_KeySkips ==
    [][ \A op \in {"SkipIfKeyPressed", "SkipIfKeyNotPressed"} :
          Dispatches(op) =>
            LET v == state.registers[last'.instr.register]
                held == (state.input_keys \div Pow2(v)) % 2 = 1
            IN /\ (v > 15) => last'.result = Err("InvalidInputKey", v)
               /\ (v <= 15) =>
                    /\ last'.result = Ok
                    /\ state'.pc = state.pc +
                         (IF held = (op = "SkipIfKeyPressed") THEN 4 ELSE 2)
      ]_vars

\* SkipIfKeyPressed has found 15 in its register while keys 3 and 15 were
\* held, and has skipped.
C21_Witness ==
    /\ Ticked /\ last.result = Ok /\ last.instr.op = "SkipIfKeyPressed"
    /\ state.registers[last.instr.register] = 15
    /\ state.input_keys = 32776
    /\ state.pc = last.pc + 4

\* The statement of C22 as written: a tick executing JumpRelative {address}
\* fails with MemoryAccessError when register 0 + address > 4095 and otherwise
\* leaves pc at register 0 + address, where the next tick can fetch its opcode
\* inside memory (pc + 1 < 4096).
C22_AsWritten ==
    [][ Dispatches("JumpRelative") =>
          LET target == state.registers[0] + last'.instr.address
          IN /\ (target > 4095) => last'.result = Err("MemoryAccessError", 0)
             /\ (target <= 4095) =>
                  /\ last'.result = Ok
                  /\ state'.pc = target
                  /\ state'.pc + 1 < 4096
      ]_vars

\* C22: a tick executing JumpRelative {address} fails with MemoryAccessError
\* when register 0 + address > 4095 and otherwise leaves pc at register 0 +
\* address; the next tick then fetches the two bytes at pc inside memory,
\* except from pc = 4095, where it fails with ProgramCounterOutOfBounds(4095)
\* and fetches nothing.
C22_JumpRelative ==
    [][ Dispatches("JumpRelative") =>
          LET target == state.registers[0] + last'.instr.address
              next_tick == tick(state', timer_counter', 0)
          IN /\ (target > 4095) => last'.result = Err("MemoryAccessError", 0)
             /\ (target <= 4095) =>
                  /\ last'.result = Ok
                  /\ state'.pc = target
                  /\ (target < 4095) => next_tick.fetched = {target, target + 1}
                  /\ (target = 4095) =>
                       /\ next_tick.result = Err("ProgramCounterOutOfBounds", 4095)
                       /\ next_tick.fetched = {}
                  /\ next_tick.fetched \subseteq 0..4095
      ]_vars

\* JumpRelative {3840} has succeeded with register 0 = 255: pc is 4095.
C22_Witness ==
    /\ Ticked /\ last.result = Ok /\ last.instr.op = "JumpRelative"
    /\ state.registers[0] = 255
    /\ state.pc = 4095

\* The errors an instruction's execution returns.
DispatchErrors ==
    {"CallStackDepthExceeded", "CallStackEmpty", "MemoryAccessError", "InvalidInputKey"}

\* C23: when a tick fails while executing an instruction (with
\* CallStackDepthExceeded, CallStackEmpty, MemoryAccessError or
\* InvalidInputKey), the state is the state the tick found with pc advanced by
\* 2: registers, stack, sp, memory, screen, I, both timers, input_keys and the
\* timer cycle counter are as they were.
C23_FailedStepOnlyAdvancesPc ==
    [][ ( /\ last'.op = "tick"
          /\ last'.instr # NoInstruction
          /\ last'.result.kind \in DispatchErrors )
        => /\ state' = [state EXCEPT !.pc = state.pc + 2]
           /\ timer_counter' = timer_counter ]_vars

\* StoreRegisters of 2 registers has failed at I = 4095 in the middle of a
\* timer cycle: the byte at 4095, which register 0 (0x11) would have fitted, is
\* still 0, and pc has moved on.
C23_Witness ==
    /\ Ticked /\ last.instr = [op |-> "StoreRegisters", count |-> 2]
    /\ last.result = Err("MemoryAccessError", 0)
    /\ state.i = 4095 /\ state.registers[0] = 17
    /\ Mem(state, 4095) = 0
    /\ state.pc = last.pc + 2
    /\ timer_counter = 3

\* ------------------------------------------- programs run after a reset

\* The numbers of ClearScreen opcodes in the programs made of nothing else.
ClearCounts == {1, 2, 5, 6}

\* k times 0x00E0.
ClearRom(k) == RomOf([j \in 1..k |-> \h00E0])

\* Draws the glyph "0" at (0, 0) and loops in place.
RomGlyph == RomOf(<< \hD005, \h1202 >>)

\* The ClearScreen programs, a program that lights the screen, and programs
\* with a call and returns, stores, and skips taken and not taken.
ClearRoms ==
    { ClearRom(k) : k \in ClearCounts }
    \cup { RomGlyph, RomReturn, RomStore, RomFailures,
           RomSkipValue(3, 1, 7, 7), RomSkipValue(4, 1, 7, 7),
           RomKeySkip(1, 3, 161), RomSkipRegister(9, 1, 0, 2, 7, 0) }

\* What is noted at a load: the ROM, whether the call before was reset, how many
\* ticks have been made since (counted up to one past the ROM's opcodes), and
\* whether they all returned Ok.
ClearNote(rom) == [rom |-> rom, after_reset |-> last.op = "reset", n |-> 0, ok |-> TRUE]

\* This caller loads a program into a new interpreter or right after a reset.
LoadClear ==
    /\ last.op \in {"new", "reset"}
    /\ \E rom \in ClearRoms :
         /\ LoadRom(rom, MaxLoads, 0)
         /\ obs' = ClearNote(rom)

ClearTick ==
    obs' = IF "rom" \notin DOMAIN obs \/ obs.n > Len(obs.rom) \div 2 THEN obs
           ELSE [obs EXCEPT !.n = @ + 1, !.ok = @ /\ last'.result = Ok]

NextClear ==
    \/ Reset /\ obs' = ObsIdle
    \/ LoadClear
    \/ Tick /\ ClearTick

SpecClear == Init /\ [][NextClear]_vars

\* A ROM of ClearScreen opcodes only (at least one) was loaded right after a
\* reset.
ClearLoaded ==
    /\ "rom" \in DOMAIN obs
    /\ obs.after_reset
    /\ Len(obs.rom) >= 2 /\ Len(obs.rom) % 2 = 0
    /\ \A j \in 1..(Len(obs.rom) \div 2) : obs.rom[2 * j - 1] = 0 /\ obs.rom[2 * j] = 224

\* The instructions that set pc, and those that may skip.
JumpNames == {"Jump", "JumpRelative", "Call", "Return"}

SkipNames ==
    { "SkipIfEqualValue", "SkipIfNotEqualValue", "SkipIfEqualRegister",
      "SkipIfNotEqualRegister", "SkipIfKeyPressed", "SkipIfKeyNotPressed" }

\* C24: after reset and the load of a ROM made of k ClearScreen opcodes only,
\* the first k ticks all return Ok, and after n <= k of them the screen is all
\* zero and pc = 0x200 + 2n; and every tick that executes an instruction other
\* than a jump, call or return leaves pc at old pc + 2, unless it is a skip
\* that is taken (old pc + 4).
C24_ClearScreenProgram ==
    /\ [] ( (ClearLoaded /\ obs.n <= Len(obs.rom) \div 2) =>
               /\ obs.ok
               /\ state.screen = {}
               /\ state.pc = 512 + 2 * obs.n )
    /\ [][ ( /\ last'.op = "tick" /\ ~last'.waited
             /\ last'.instr.op \notin JumpNames \cup {"None"}
             /\ last'.result # Panic )
           => \/ state'.pc = state.pc + 2
              \/ last'.instr.op \in SkipNames /\ state'.pc = state.pc + 4 ]_vars

\* After a program had lit the screen, a reset and the load of five ClearScreen
\* opcodes, five ticks have been made: pc is 0x200 + 10.
C24_Witness ==
    /\ ClearLoaded /\ Len(obs.rom) = 10 /\ obs.n = 5 /\ obs.ok
    /\ Ticked /\ last.instr.op = "ClearScreen"
    /\ state.screen = {}
    /\ state.pc = 522

\* --------------------------------------------------- calls and returns

\* Calls A (at 0x208) and then B (at 0x20C) from the top level; A calls B and
\* returns, B returns. Back at the top level a Return finds the stack empty,
\* and the program stops on an opcode the decoder rejects.
RomNested ==
    RomOf(<< \h2208, \h220C, \h00EE, \hE000, \h220C, \h00EE, \h00EE >>)

CallRoms == {RomNested, RomCalls, RomReturn}

\* The return addresses of the calls not yet returned from, oldest first, as
\* an observer of the ticks has them.
Pending == IF "pending" \in DOMAIN obs THEN obs.pending ELSE << >>

\* The observer's note after a tick: a successful Call made at pc = A adds
\* A + 2, a successful Return takes the newest address away.
CallsTick ==
    obs' = IF last'.result = Ok /\ last'.instr.op = "Call"
           THEN [pending |-> Append(Pending, state.pc + 2)]
           ELSE IF last'.result = Ok /\ last'.instr.op = "Return"
           THEN [pending |-> SubSeq(Pending, 1, Len(Pending) - 1)]
           ELSE [pending |-> Pending]

NextCalls ==
    \/ Reset /\ obs' = [pending |-> << >>]
    \/ \E rom \in CallRoms :
         /\ LoadRom(rom, MaxReloads, MaxReloadDelay)
         /\ obs' = [pending |-> Pending]
    \/ Tick /\ CallsTick

SpecCalls == Init /\ [][NextCalls]_vars

\* C25: stack_pointer is always the number of calls not yet returned from, the
\* stack holds their return addresses in the order of the calls, and a
\* successful Return leaves pc at the address following the most recent such
\* call and stack_pointer one lower.
C25_CallReturnLifo ==
    /\ [] ( /\ state.sp = Len(Pending)
            /\ \A k \in 1..Len(Pending) : state.stack[k - 1] = Pending[k] )
    /\ [][ Executes("Return") =>
             /\ Len(Pending) > 0
             /\ state'.pc = Pending[Len(Pending)]
             /\ state'.sp = state.sp - 1 ]_vars

\* The call made at 0x200 has returned after a nested call and its return:
\* pc is 0x202 and the stack is empty again.
C25_Witness ==
    /\ Ticked /\ last.result = Ok /\ last.instr.op = "Return"
    /\ last.pc = 522 /\ last.sp = 1
    /\ state.pc = 514 /\ state.sp = 0
    /\ Pending = << >>

\* ------------------------------------------------------ shift programs

\* The bytes the shift programs work on: with bit 0 and bit 7 set and clear.
ShiftValues == {0, 1, 128, 129, 255}

\* The low nibbles of ShiftRight and ShiftLeft.
ShiftOps == {6, 14}

ShiftRoms ==
    { RomAlu(x, a, y, b, n) :
        x \in AluRegisters, a \in ShiftValues, y \in AluRegisters, b \in ShiftValues,
        n \in ShiftOps }

\* These programs are loaded into a new interpreter.
LoadShift == last.op = "new" /\ \E rom \in ShiftRoms : LoadRom(rom, MaxLoads, 0)

NextShift ==
    \/ LoadShift /\ UNCHANGED obs
    \/ Tick /\ obs' = DrawNote

SpecShift == Init /\ [][NextShift]_vars

\* C26: a tick executing ShiftRight on register x holding v leaves register 15
\* at bit 0 of v and, for x # 15, register x at v shifted right by one; a tick
\* executing ShiftLeft leaves register 15 at bit 7 of v and, for x # 15,
\* register x at (v * 2) mod 256. The other registers are as they were.
C26_ShiftFlags ==
    [][ /\ Executes("ShiftRight") =>
             LET x == last'.instr.x
                 v == state.registers[x]
             IN /\ state'.registers[15] = v % 2
                /\ (x # 15) => state'.registers[x] = v \div 2
                /\ OtherRegistersKept(x)
        /\ Executes("ShiftLeft") =>
             LET x == last'.instr.x
                 v == state.registers[x]
             IN /\ state'.registers[15] = v \div 128
                /\ (x # 15) => state'.registers[x] = (v * 2) % 256
                /\ OtherRegistersKept(x)
      ]_vars

\* ShiftLeft has been executed on register 15 holding 129: the register holds
\* the bit shifted out, 1, and not the shifted value 2.
C26_Witness ==
    /\ Ticked /\ last.result = Ok /\ last.instr.op = "ShiftLeft"
    /\ last.instr.x = 15
    /\ obs.prev.registers[15] = 129
    /\ state.registers[15] = 1

\* The statement of C27: a tick executing ShiftRight {x, y} or ShiftLeft {x, y},
\* x # 15, leaves register x at Vy shifted by one bit (Vy >> 1, resp.
\* (Vy * 2) mod 256), Vy being register y's value before the tick.
C27_ShiftCopiesVy ==
    [][ /\ (Executes("ShiftRight") /\ last'.instr.x # 15) =>
             state'.registers[last'.instr.x] = state.registers[last'.instr.y] \div 2
        /\ (Executes("ShiftLeft") /\ last'.instr.x # 15) =>
             state'.registers[last'.instr.x] = (state.registers[last'.instr.y] * 2) % 256
      ]_vars

\* ------------------------------------- programs storing through I

\* The bytes whose decimal digits are stored.
BcdValues == {0, 7, 10, 99, 100, 209, 255}

\* Where they are stored: over the font table, above the program, and around
\* the last three bytes of memory.
BcdAddresses == {0, 768, 4092, 4093, 4094, 4095}

\* Vx = v; I = address; StoreBcd {x}; then an opcode the decoder rejects.
RomBcd(address, x, v) ==
    RomOf(<< 24576 + x * 256 + v, 40960 + address, 61491 + x * 256, \hE000 >>)

\* How often the loop of RomBcdFar adds 255 to I, and what is added after it.
FarTimes == {1, 240}

FarRests == {237, 238, 239, 240, 255}

\* Raises I from 4095 by 255 * times + rest with AddIndex (in a loop counted
\* in V1), sets V2 = 209 and executes StoreBcd {2}; then an opcode the decoder
\* rejects.
RomBcdFar(times, rest) ==
    RomOf(<< \hAFFF, \h60FF, \hF01E, \h7101, 12544 + times, \h1204,
             24576 + rest, \hF01E, \h62D1, \hF233, \hE000 >>)

\* The registers x of the block transfers.
BlockRegisters == {0, 2, 15}

\* Where the blocks are stored: above the program, and around the last 3 and
\* the last 16 bytes of memory.
BlockAddresses == {768, 4080, 4081, 4093, 4094, 4095}

\* Sets V0, V1, V2 and VF; I = address; StoreRegisters up to x; zeroes V0, V1
\* and VF; LoadRegisters up to y; then an opcode the decoder rejects.
RomBlock(address, x, y) ==
    RomOf(<< \h60A1, \h61B2, \h62C3, \h6FF9, 40960 + address, 61525 + x * 256,
             \h6000, \h6100, \h6F00, 61541 + y * 256, \hE000 >>)

BlockRoms ==
    { RomBcd(address, x, v) : address \in BcdAddresses, x \in {1, 15}, v \in BcdValues }
    \cup { RomBcdFar(times, rest) : times \in FarTimes, rest \in FarRests }
    \cup { RomBlock(address, x, y) :
             address \in BlockAddresses, x \in BlockRegisters, y \in BlockRegisters }
    \cup { RomIndexed(4095, more, opcode) :
             more \in {0, 1, 2}, opcode \in {\hF033, \hF055, \hF155, \hF065, \hF165} }

\* These programs are loaded into a new interpreter.
LoadBlock == last.op = "new" /\ \E rom \in BlockRoms : LoadRom(rom, MaxLoads, 0)

\* What an observer of the ticks keeps of the last successful StoreRegisters:
\* its count, I and the registers it found, for as long as no later
\* instruction has written memory.
BlockNote ==
    obs' = IF last'.result = Ok /\ last'.instr.op = "StoreRegisters"
           THEN [ valid |-> TRUE, count |-> last'.instr.count, i |-> state.i,
                  registers |-> state.registers ]
           ELSE IF state'.memory # state.memory \/ "valid" \notin DOMAIN obs
           THEN [valid |-> FALSE, count |-> 0, i |-> 0, registers |-> state.registers]
           ELSE obs

\* The programs all stop, so this caller ticks for as long as it likes.
NextBlock ==
    \/ LoadBlock /\ UNCHANGED obs
    \/ LiveTick /\ BlockNote

SpecBlock == Init /\ [][NextBlock]_vars

\* The statement of C28: a tick executing StoreBcd {register} on the value v,
\* for every 16-bit I: if I + 3 > 4096 it fails with MemoryAccessError and
\* leaves memory as it was; otherwise it succeeds with memory[I] = v / 100,
\* memory[I + 1] = (v / 10) mod 10, memory[I + 2] = v mod 10, every other byte
\* of memory, every register and I as they were.
C28_StoreBcd ==
    [][ Dispatches("StoreBcd") =>
          LET v == state.registers[last'.instr.register]
              i == state.i
          IN /\ (i + 3 > 4096) =>
                  /\ last'.result = Err("MemoryAccessError", 0)
                  /\ state'.memory = state.memory
             /\ (i + 3 <= 4096) =>
                  /\ last'.result = Ok
                  /\ Mem(state', i) = v \div 100
                  /\ Mem(state', i + 1) = (v \div 10) % 10
                  /\ Mem(state', i + 2) = v % 10
                  /\ 100 * Mem(state', i) + 10 * Mem(state', i + 1) + Mem(state', i + 2) = v
                  /\ \A a \in Addresses \ {i, i + 1, i + 2} : Mem(state', a) = Mem(state, a)
                  /\ state'.registers = state.registers
                  /\ state'.i = i
      ]_vars

\* The step is a tick that fetches an opcode 0xFx.. with the low byte given.
FetchesMisc(low) ==
    /\ last'.op = "tick"
    /\ ~PcOutOfBounds(state)
    /\ Mem(state, state.pc) \div 16 = 15
    /\ Mem(state, state.pc + 1) = low

\* The x of the opcode 0xFx.. at pc.
FetchedX == Mem(state, state.pc) % 16

\* C29: a tick executing Fx55 (resp. Fx65) fails with MemoryAccessError iff
\* I + x + 1 > 4096, and then leaves memory and registers as they were;
\* otherwise Fx55 leaves memory[I + k] = register k for k = 0..x, every other
\* byte of memory and every register as they were, and Fx65 leaves register
\* k = memory[I + k] for k = 0..x, registers x+1..15 and memory as they were;
\* both leave I alone. A LoadRegisters with the count and I of the last
\* StoreRegisters, no instruction having written memory in between, leaves
\* registers 0..x at the values stored.
C29_BlockTransfers ==
    [][ /\ FetchesMisc(85) =>
             LET x == FetchedX
                 i == state.i
             IN /\ (last'.result = Err("MemoryAccessError", 0)) <=> (i + x + 1 > 4096)
                /\ (i + x + 1 > 4096) => state'.memory = state.memory
                /\ (i + x + 1 <= 4096) =>
                     /\ last'.result = Ok
                     /\ \A k \in 0..x : Mem(state', i + k) = state.registers[k]
                     /\ \A a \in Addresses \ (i..(i + x)) : Mem(state', a) = Mem(state, a)
                /\ state'.registers = state.registers
                /\ state'.i = i
        /\ FetchesMisc(101) =>
             LET x == FetchedX
                 i == state.i
             IN /\ (last'.result = Err("MemoryAccessError", 0)) <=> (i + x + 1 > 4096)
                /\ (i + x + 1 > 4096) => state'.registers = state.registers
                /\ (i + x + 1 <= 4096) =>
                     /\ last'.result = Ok
                     /\ \A k \in 0..x : state'.registers[k] = Mem(state, i + k)
                     /\ \A k \in (x + 1)..15 : state'.registers[k] = state.registers[k]
                /\ state'.memory = state.memory
                /\ state'.i = i
        /\ ( /\ Executes("LoadRegisters")
             /\ "valid" \in DOMAIN obs /\ obs.valid
             /\ obs.count = last'.instr.count /\ obs.i = state.i )
           => \A k \in 0..(obs.count - 1) : state'.registers[k] = obs.registers[k]
      ]_vars

\* Registers 0..2 were stored at the last three bytes of memory, registers 0,
\* 1 and 15 zeroed, and registers 0..2 loaded back: they hold the stored
\* values again, and register 15 is still 0.
C29_Witness ==
    /\ Ticked /\ last.result = Ok
    /\ last.instr = [op |-> "LoadRegisters", count |-> 3]
    /\ state.i = 4093
    /\ Mem(state, 4093) = 161 /\ Mem(state, 4094) = 178 /\ Mem(state, 4095) = 195
    /\ state.registers[0] = 161 /\ state.registers[1] = 178 /\ state.registers[2] = 195
    /\ state.registers[15] = 0
    /\ obs.valid /\ obs.count = 3 /\ obs.i = 4093

\* The condition of the register skip whose two opcode bytes are hi and lo,
\* on the registers of s: 3xkk Vx = kk, 4xkk Vx # kk, 5xy_ Vx = Vy, 9xy_
\* Vx # Vy.
SkipCondition(s, hi, lo) ==
    LET vx == s.registers[hi % 16]
        vy == s.registers[lo \div 16]
    IN CASE hi \div 16 = 3 -> vx = lo
         [] hi \div 16 = 4 -> vx # lo
         [] hi \div 16 = 5 -> vx = vy
         [] hi \div 16 = 9 -> vx # vy

\* C30: a tick that fetches an opcode 3xkk, 4xkk, 5xy_ or 9xy_ (whatever the
\* low nibble of the last two) succeeds and leaves pc at old pc + 4 when the
\* condition holds (Vx = kk, Vx # kk, Vx = Vy, Vx # Vy) and at old pc + 2 when
\* it does not; registers, memory, screen, stack, sp and I are as they were.
C30_RegisterSkips ==
    [][ ( /\ last'.op = "tick"
          /\ ~PcOutOfBounds(state)
          /\ (Mem(state, state.pc) \div 16) \in {3, 4, 5, 9} )
        => /\ last'.result = Ok
           /\ state'.pc = state.pc +
                (IF SkipCondition(state, Mem(state, state.pc), Mem(state, state.pc + 1))
                 THEN 4 ELSE 2)
           /\ state'.registers = state.registers
           /\ state'.memory = state.memory
           /\ state'.screen = state.screen
           /\ state'.stack = state.stack
           /\ state'.sp = state.sp
           /\ state'.i = state.i ]_vars

\* The opcode 0x512F has been executed with V1 = V2 = 7: it skipped.
C30_Witness ==
    /\ Ticked /\ last.result = Ok
    /\ last.instr = [op |-> "SkipIfEqualRegister", x |-> 1, y |-> 2]
    /\ Mem(state, last.pc + 1) = 47
    /\ state.registers[1] = 7 /\ state.registers[2] = 7
    /\ state.pc = last.pc + 4

\* --------------------------------------- timer writes across the cycle

\* The values a program puts in the register it starts a timer from.
TimerValues == {0, 1, 2, 255}

\* The numbers of instructions a program executes before an instruction that
\* writes or reads a timer: every position in a timer cycle.
TimerPads == 0..(TIMER_TICK_INTERVAL - 1)

\* The low bytes of SetDelayTimer and SetSoundTimer.
TimerSetBytes == {21, 24}

\* k times the opcode of LoadValue {1, 0}.
PadWords(k) == [j \in 1..k |-> \h6100]

\* Puts v in V0, executes `before` instructions, starts a timer from V0,
\* executes `between` instructions, reads the delay timer into V2, and then
\* loops in place.
RomTimed(v, before, low, between) ==
    RomOf(<< \h6000 + v >> \o PadWords(before) \o << \hF000 + low >>
          \o PadWords(between) \o << \hF207 >>
          \o << \h1200 + 2 * (before + between + 3) >>)

TimerRoms ==
    { RomTimed(v, before, low, between) :
        v \in TimerValues, before \in TimerPads, low \in TimerSetBytes,
        between \in TimerPads }

LoadTimed == last.op = "new" /\ \E rom \in TimerRoms : LoadRom(rom, MaxLoads, 0)

NextTimers ==
    \/ LoadTimed /\ UNCHANGED obs
    \/ Tick /\ UNCHANGED obs

SpecTimers == Init /\ [][NextTimers]_vars

\* The step is a tick that executed an instruction and returned Ok.
Executed == last'.op = "tick" /\ last'.result = Ok /\ ~last'.waited

\* The cycle counter reaches TIMER_TICK_INTERVAL on this step.
ReachesInterval == timer_counter + 1 = TIMER_TICK_INTERVAL

\* What the timers' update leaves of the timer value v on this step.
AfterUpdate(v) == IF ReachesInterval THEN (IF v > 1 THEN v - 1 ELSE 0) ELSE v

\* C31: within one successful tick the instruction's effect is applied before
\* the timer update. The cycle counter is always in 0..7; a tick executing
\* SetDelayTimer (SetSoundTimer) on register x leaves the timer at
\* max(Vx - 1, 0) when the counter reaches 8 on that tick, and at Vx on the
\* other 7 ticks of the cycle; a tick executing ReadDelayTimer stores in its
\* register the delay timer's value from before the tick, also when that tick
\* decrements the timer.
C31_EffectBeforeTimerUpdate ==
    /\ [](timer_counter \in 0..(TIMER_TICK_INTERVAL - 1))
    /\ [][ Executed =>
            LET x == last'.instr.register
            IN /\ last'.instr.op = "SetDelayTimer"
                    => state'.dt = AfterUpdate(state.registers[x])
               /\ last'.instr.op = "SetSoundTimer"
                    => state'.st = AfterUpdate(state.registers[x])
               /\ last'.instr.op = "ReadDelayTimer"
                    => /\ state'.registers[x] = state.dt
                       /\ state'.dt = AfterUpdate(state.dt) ]_vars

\* SetDelayTimer {0} has executed with V0 = 255 on the tick that ended a timer
\* cycle: the delay timer is 254 after it.
C31_Witness ==
    /\ Ticked /\ last.result = Ok /\ last.instr = [op |-> "SetDelayTimer", register |-> 0]
    /\ timer_counter = 0
    /\ state.registers[0] = 255
    /\ state.dt = 254

\* ------------------------------------ ticks that fail before executing

\* Programs that stop on an opcode the decoder rejects, at 0x200 (0xE000,
\* 0xE001) or at 0x202 (0xE000 after LoadValue {0, 1}); a program of one
\* instruction, which leaves the bytes from 0x202 on as they are; and a jump
\* to the last byte of memory.
StuckRoms ==
    { RomBad, RomOf(<< \hE001 >>), RomOf(<< \h6001, \hE000 >>), RomOf(<< \h6002 >>),
      RomEdge }

\* The errors tick returns before it executes anything.
EarlyErrors == {"ProgramCounterOutOfBounds", "InvalidInstruction"}

\* The opcode tick would fetch in state s.
OpcodeAtPc(s) ==
    IF PcOutOfBounds(s) THEN -1 ELSE Mem(s, s.pc) * 256 + Mem(s, s.pc + 1)

\* The early error an observer of the calls expects of the next tick (Ok when
\* none).
Stuck == IF "stuck" \in DOMAIN obs THEN obs.stuck ELSE Ok

\* The observer expects the error a tick has just returned early, of every
\* tick from then on; it stops expecting it at a reset and, for
\* InvalidInstruction, at a load that changes the opcode at pc.
StuckNote ==
    obs' = [ stuck |->
               IF last'.op = "reset" THEN Ok
               ELSE IF last'.op = "tick"
               THEN (IF last'.result.kind \in EarlyErrors THEN last'.result ELSE Ok)
               ELSE IF /\ last'.op = "load"
                       /\ Stuck.kind = "InvalidInstruction"
                       /\ OpcodeAtPc(state') # OpcodeAtPc(state)
               THEN Ok
               ELSE Stuck ]

NextStuck ==
    \/ Reset /\ StuckNote
    \/ (\E rom \in StuckRoms : LoadRom(rom, MaxReloads, MaxReloadDelay)) /\ StuckNote
    \/ SetInputKeys /\ StuckNote
    \/ Tick /\ StuckNote

SpecStuck == Init /\ [][NextStuck]_vars

\* C32: a tick that fails with ProgramCounterOutOfBounds or with
\* InvalidInstruction leaves the state and the timer cycle counter exactly as
\* it found them, and every tick made after it fails with the same error
\* (same address, same opcode), whatever set_input_keys and try_load_rom calls
\* come between, until reset is called or, for InvalidInstruction, until a
\* load changes the opcode at pc.
C32_EarlyFailureIsSticky ==
    /\ [][ (last'.op = "tick" /\ last'.result.kind \in EarlyErrors)
           => /\ state' = state
              /\ timer_counter' = timer_counter ]_vars
    /\ [][ (last'.op = "tick" /\ Stuck # Ok) => last'.result = Stuck ]_vars

\* The program 6001 E000 has stopped on InvalidInstruction(0xE000) at 0x202,
\* the program 6002 has been loaded over its first instruction, and the tick
\* made after that has failed with InvalidInstruction(0xE000) again: pc is
\* still 0x202, and the timer cycle counter still 1.
C32_Witness ==
    /\ Ticked /\ last.result = Err("InvalidInstruction", \hE000)
    /\ Stuck = last.result
    /\ state.pc = \h202 /\ last.pc = \h202
    /\ Mem(state, \h201) = 2 /\ state.registers[0] = 1
    /\ timer_counter = 1

\* ---------------------------------- programs that end where memory ends

\* The opcodes put in the last two bytes of memory: a call of that opcode
\* itself, a call of address 0x202, the skips on V0 = 0 (taken: 3000, 5000,
\* E0A1; not taken: 4000, 9000, E09E), and JumpRelative {0xFFF}.
LastOpcodes ==
    {\h2FFE, \h2202, \h3000, \h4000, \h5000, \h9000, \hE09E, \hE0A1, \hBFFF}

\* A jump to the last two bytes of memory, and a Return at 0x202.
HeadReturn == << \h1FFE, \h00EE >>

\* A jump to the last two bytes of memory; from 0x202 on, V0 = 0x40, V1 = 0,
\* I = 0xFFE, StoreRegisters {2}, which writes the opcode 4000 (skip when
\* V0 # 0) over the last two bytes of memory, and a jump there.
HeadPatch == << \h1FFE, \h6040, \h6100, \hAFFE, \hF155, \h1FFE >>

\* A ROM of exactly MAX_ROM_SIZE bytes: the opcodes of `head` from 0x200 on
\* and the opcode `word` in the last two bytes of memory.
RomLast(head, word) ==
    [k \in 1..MAX_ROM_SIZE |->
       CASE k <= 2 * Len(head) -> RomOf(head)[k]
         [] k = MAX_ROM_SIZE - 1 -> word \div 256
         [] k = MAX_ROM_SIZE -> word % 256
         [] OTHER -> 0]

LastPrograms ==
    {<<HeadReturn, word>> : word \in LastOpcodes} \cup {<<HeadPatch, \h2202>>}

\* try_load_rom with such a ROM, called once, on a machine that has just been
\* created or reset.
LoadLast ==
    /\ last.op \in {"new", "reset"}
    /\ \E p \in LastPrograms : LoadRom(RomLast(p[1], p[2]), MaxLoads, 0)

NextLast ==
    \/ Reset /\ UNCHANGED obs
    \/ LoadLast /\ UNCHANGED obs
    \/ SetInputKeys /\ UNCHANGED obs
    \/ Tick /\ UNCHANGED obs

SpecLast == Init /\ [][NextLast]_vars

\* C33: in every state reached by reset, try_load_rom, set_input_keys and
\* tick calls, pc is at most MEMORY_SIZE + 2 = 4098 and every stack entry
\* below sp is at most MEMORY_SIZE = 4096, so that pc + 1 and pc + 2 fit in 16
\* bits.
C33_PcAndStackBounded ==
    /\ state.pc <= MEMORY_SIZE + 2
    /\ \A k \in 0..(state.sp - 1) : state.stack[k] <= MEMORY_SIZE
    /\ state.pc + 2 < 65536

\* A Call in the last two bytes of memory has pushed 4096, the program has
\* written a skip over it, and the skip, fetched at 4094, has been taken: pc
\* is 4098.
C33_Witness ==
    /\ Ticked /\ last.result = Ok /\ last.pc = MEMORY_SIZE - 2
    /\ state.pc = MEMORY_SIZE + 2
    /\ state.sp = 1 /\ state.stack[0] = MEMORY_SIZE

\* The statement of C34: whenever a tick executes WaitForKey {register} with
\* input_keys # 0, whatever 32-bit mask set_input_keys was given, the tick
\* succeeds and the register then holds the index of the lowest held key: a
\* value k in 0..15 such that bit k of input_keys is set and no lower bit is.
\* The code does not satisfy it: with a mask whose only set bits are above
\* bit 15 the tick goes past the wait and writes no register.
C34_WaitForKeyStoresLowestKey ==
    [][ (Dispatches("WaitForKey") /\ state.input_keys # 0)
        => /\ last'.result = Ok
           /\ LET k == state'.registers[last'.instr.register]
              IN /\ k \in 0..15
                 /\ KeyHeld(state, k)
                 /\ \A j \in 0..(k - 1) : ~KeyHeld(state, j) ]_vars

====
